---------------------------- MODULE Spec2Model ----------------------------
(***************************************************************************)
(* State-machine model of portfolio/static/js/main.js, the client script   *)
(* of the portfolio site.  The file holds two generations of the script    *)
(* one after the other (lines 1-633 and 634-1546); the browser runs the    *)
(* whole file, so every module of lines 1-633 and its later counterpart    *)
(* are both initialised and both register their listeners.                 *)
(*                                                                         *)
(* Each UI module of the script is a self-contained closure, so each gets  *)
(* its own specification (SpecTheme, ...) over its own variables; the      *)
(* variables of the other modules are held at one initial value.           *)
(***************************************************************************)
EXTENDS Integers, Sequences, FiniteSets, TLC

VARIABLES
    \* ---- theme module (main.js 7-227 and 640-848) ----
    rootClasses,      \* theme classes in document.documentElement.classList
    themeStore,       \* localStorage 'theme' (NoItem when the key is absent)
    hasSVT,           \* whether document.startViewTransition exists
    viewTransitions,  \* update callbacks handed to startViewTransition, not yet run
    toggleIcon,       \* data-lucide icon drawn inside #theme-toggle
    themeWrites,      \* every value ever passed to localStorage.setItem('theme', .)
    clicks,           \* per click since the page was loaded: the state it found
    pageLoads,        \* number of re-initialisations (page loads after the first)
    leftClasses,      \* rootClasses of the previous page at the moment it was left
    \* ---- contact form modules (main.js 542-614 and 1183-1264) ----
    hasToastContainer,\* whether the page has #toast-container
    btnDisabled,      \* submitBtn.disabled
    btnContent,       \* submitBtn.innerHTML: "original" or "sending"
    btnCursor,        \* submitBtn.style.cursor
    toasts,           \* every toast element created, in creation order
    runs,             \* every invocation of a submit listener, in start order
    submits,          \* number of submit events dispatched
    \* ---- navigation router (main.js 230-324 and 851-945) ----
    innerHeight,      \* window.innerHeight
    sections,         \* document.querySelectorAll('section[id]'): id, offsetTop, offsetHeight
    links,            \* href of every a[href^="#"] of the page, in document order
    scrollY,          \* window.scrollY
    activeLinks,      \* the links that carry the class is-active
    ariaCurrent,      \* the links that carry aria-current="page"
    spied,            \* whether updateActiveState has run since the last scroll change
    \* ---- custom cursor, capability aware (main.js 1016-1180) ----
    capMatches,       \* capabilityQuery.matches
    isCursorActive,
    mouseMoveBound,   \* whether onMouseMove is registered on window
    cursorShown,      \* dot.style.display / ring.style.display is 'block'
    lockedItem,       \* the locked element, NoElement for null
    ringLocked,       \* ring carries the class is-locked
    isUnlocking,
    hasMoved,
    mouse,            \* <<mouseX, mouseY>>
    ring,             \* <<ringX * d, ringY * d, d>>: the ring position as exact fractions
    pendingFrames,    \* requestAnimationFrame(loop) callbacks not yet run
    unlockTimers,     \* the due times of the pending setTimeout(..., 200) callbacks
    attachedBy,       \* per element: the cursor module that set __cursorAttached (0: none)
    firstCursorRuns,  \* whether the cursor module of lines 395-539 passed its entry test
    hovered,          \* the element under the pointer, NoElement for none
    now,              \* time in ms
    lastFrame,        \* what the last drawing run of loop wrote to ring.style
    lastLeave,        \* time of the last mouseleave that cleared the lock, -1 if none
    framesRun,        \* number of loop callbacks run
    capChanges,       \* number of change events of capabilityQuery
    pointerMoves,     \* number of pointer movements
    inDocument,       \* the elements that are in the document
    listenerPairs,    \* per element: mouseenter/mouseleave listener pairs bound by the cursor code
    rescans,          \* pending setTimeout(attachCursorListeners, 50): the module of each
    firstLocked,      \* lockedItem of the first cursor module, NoElement for null
    insertedEls,      \* the elements inserted into the document after load
    \* ---- custom cursor, idle aware (main.js 395-539) ----
    firstMouse,       \* <<mouseX, mouseY>>
    firstRing,        \* <<ringX * d, ringY * d, d>>
    firstSize,        \* <<ringW * d, ringH * d, d>>
    firstMoved,       \* hasMoved
    firstIdle,        \* isIdle
    firstPending,     \* requestAnimationFrame(loop) callbacks not yet run
    firstUnlocking,   \* isUnlocking
    firstTimers,      \* the due times of its pending setTimeout(..., 200) callbacks
    \* ---- image carousel (main.js 1409-1546) ----
    marked,           \* the slides and the dots (indices from 1) carrying current-slide
    autoPlayInterval, \* the handle in autoPlayInterval, NoHandle while undefined
    liveIntervals,    \* the setInterval timers not cleared: [id, due]
    handlesIssued,    \* number of timer handles setInterval has returned
    startTimeouts,    \* the due times of the pending setTimeout(startAutoplay, 1000)
    isHovered,        \* isHovered
    intersecting,     \* the last isIntersecting the observer reported, "none" before the first
    carouselNow,      \* time in seconds
    lastAutoAdvance,  \* time of the last showNextSlide() made by an interval, -1 if none
    lastGap,          \* time between the last two of them, -1 if fewer than two
    carouselEvents,   \* number of clicks, hover and visibility changes
    \* ---- the elements the modules expect (main.js as one script) ----
    page,             \* the expected elements that the document has
    scriptPos,        \* index in GuardModules of the next module the script runs
    raised,           \* the places where an exception was raised
    closeListeners,   \* click listeners registered on #close-theme-modal
    refreshListeners, \* click listeners registered on #refresh-palettes
    cardsRendered,    \* the palette grid holds cards
    modalTimers,      \* pending setTimeout(() => modal.close(), 300)
    guardEvents,      \* number of clicks
    \* ---- scroll reveal (main.js 381-390 and 1002-1012) ----
    nowIntersecting,  \* per element: it intersects the viewport by the threshold
    observedBy,       \* per observer: the elements it observes
    entryQueue,       \* per observer: the entries queued for its next callback
    revealed,         \* the elements whose classList has is-revealed
    reportedBy,       \* per observer: the elements a callback has reported intersecting
    scrolls,          \* number of changes of intersection
    \* ---- colour palettes (main.js 645-801 and 834-848) ----
    paletteStore,     \* localStorage 'custom-palette'
    rootStyle,        \* the custom properties set on root.style, NoValue where unset
    btnTextColor,     \* --color-btn-text on root.style, "" where unset
    metaColor,        \* content of meta[name="theme-color"], <<>> for undefined
    cards,            \* the colours of the cards in #palette-grid, in order
    activeCards,      \* the cards that have is-active-palette
    modalOpen,        \* #theme-modal is open
    modalCloseTimers, \* pending setTimeout(() => modal.close(), 300)
    paletteSVT,       \* document.startViewTransition exists
    paletteVT,        \* colours of the view-transition callbacks not yet run
    lastClicked,      \* colours of the card clicked last, <<>> before the first click
    paletteClicks,    \* number of card clicks
    \* ---- theme initialisation, statement by statement (main.js 181-186, 803-807) ----
    bootTheme,        \* localStorage 'theme'
    bootPage,         \* the page as applyPalette reads and writes it; .store is 'custom-palette'
    bootClasses,      \* theme classes in document.documentElement.classList
    bootPc,           \* the theme module running and its next statement
    bootRaised        \* the places where an exception was raised

themeVars == <<rootClasses, themeStore, hasSVT, viewTransitions, toggleIcon,
               themeWrites, clicks, pageLoads, leftClasses>>

formVars == <<hasToastContainer, btnDisabled, btnContent, btnCursor, toasts, runs,
              submits>>

navVars == <<innerHeight, sections, links, scrollY, activeLinks, ariaCurrent, spied>>

cursorVars == <<capMatches, isCursorActive, mouseMoveBound, cursorShown, lockedItem,
                ringLocked, isUnlocking, hasMoved, mouse, ring, pendingFrames,
                unlockTimers, attachedBy, firstCursorRuns, hovered, now, lastFrame,
                lastLeave, framesRun, capChanges, pointerMoves, inDocument,
                listenerPairs, rescans, firstLocked, insertedEls, firstMouse,
                firstRing, firstSize, firstMoved, firstIdle, firstPending,
                firstUnlocking, firstTimers>>

\* the variables of the idle-aware cursor module's closure
firstVars == <<firstMouse, firstRing, firstSize, firstMoved, firstIdle, firstPending,
               firstUnlocking, firstTimers>>

\* the document as the cursor code scans it
domVars == <<inDocument, rescans, insertedEls>>

carouselVars == <<marked, autoPlayInterval, liveIntervals, handlesIssued,
                  startTimeouts, isHovered, intersecting, carouselNow, lastAutoAdvance,
                  lastGap, carouselEvents>>

\* the modules of the first four sections, and the others
coreVars == <<themeVars, formVars, navVars, cursorVars>>
guardVars == <<page, scriptPos, raised, closeListeners, refreshListeners,
               cardsRendered, modalTimers, guardEvents>>
revealVars == <<nowIntersecting, observedBy, entryQueue, revealed, reportedBy, scrolls>>
paletteVars == <<paletteStore, rootStyle, btnTextColor, metaColor, cards, activeCards,
                 modalOpen, modalCloseTimers, paletteSVT, paletteVT, lastClicked,
                 paletteClicks>>
bootVars == <<bootTheme, bootPage, bootClasses, bootPc, bootRaised>>
widgetVars == <<carouselVars, guardVars, revealVars, paletteVars, bootVars>>

vars == <<coreVars, widgetVars>>

\* what the actions of one module leave alone
themeRest == <<formVars, navVars, cursorVars, widgetVars>>
formRest == <<themeVars, navVars, cursorVars, widgetVars>>
navRest == <<themeVars, formVars, cursorVars, widgetVars>>
cursorRest == <<themeVars, formVars, navVars, widgetVars>>
carouselRest == <<coreVars, guardVars, revealVars, paletteVars, bootVars>>
guardRest == <<coreVars, carouselVars, revealVars, paletteVars, bootVars>>
revealRest == <<coreVars, carouselVars, guardVars, paletteVars, bootVars>>
paletteRest == <<coreVars, carouselVars, guardVars, revealVars, bootVars>>
bootRest == <<coreVars, carouselVars, guardVars, revealVars, paletteVars>>

-----------------------------------------------------------------------------
(* Bounds of the model *)

MaxClicks == 3
MaxLoads == 2
MaxSubmits == 1
MaxLinks == 3
MaxTicks == 2
MaxFrames == 2
MaxChanges == 2
MaxMoves == 3
MaxCloses == 1
MaxCarouselEvents == 3
MaxGuardEvents == 3
MaxScrolls == 3
MaxPaletteClicks == 2
MaxCarouselTicks == 7

-----------------------------------------------------------------------------
(* Theme module *)

NoItem == "<null>"

\* what localStorage can hold under 'theme' when the page is first opened
StoredThemes == {NoItem, "light", "dark", "solarized"}

\* localStorage.getItem('theme') || 'light'
SavedTheme(store) == IF store = NoItem THEN "light" ELSE store

\* savedTheme === 'dark' ? 'dark-theme' : 'light-theme'
ThemeClass(theme) == IF theme = "dark" THEN "dark-theme" ELSE "light-theme"

\* updateIcon(theme)
UpdateIcon(theme) == IF theme = "dark" THEN "moon" ELSE "sun"

\* DOMTokenList.toggle(token, force)
ClassToggle(classes, token, force) ==
    IF force THEN classes \cup {token} ELSE classes \ {token}

\* The state the theme code reads and writes, as one record.
ThemeState ==
    [cls |-> rootClasses, store |-> themeStore, vt |-> viewTransitions,
     icon |-> toggleIcon, writes |-> themeWrites]

\* Mutant of ThemeInitB: the test is written against 'light' instead of 'dark'.
ThemeInitB_TestsLight(st) ==
    [st EXCEPT !.cls = @ \cup {IF SavedTheme(st.store) = "light"
                                THEN "light-theme" ELSE "dark-theme"},
               !.icon = UpdateIcon(SavedTheme(st.store))]

\* First theme module, initialisation: root.classList.add(...); updateIcon(savedTheme)
ThemeInitA(st) ==
    [st EXCEPT !.cls = @ \cup {ThemeClass(SavedTheme(st.store))},
               !.icon = UpdateIcon(SavedTheme(st.store))]

\* Second theme module, initialisation (same statements)
ThemeInitB(st) ==
    [st EXCEPT !.cls = @ \cup {ThemeClass(SavedTheme(st.store))},
               !.icon = UpdateIcon(SavedTheme(st.store))]

\* A freshly parsed document: no theme class on <html>, no pending transition.
FreshDocument(store, writes) ==
    [cls |-> {}, store |-> store, vt |-> <<>>, icon |-> "none", writes |-> writes]

\* Both modules run their initialisation, in file order.
ThemeBoot(store, writes) == ThemeInitB(ThemeInitA(FreshDocument(store, writes)))

\* Mutant of Transition: classList.toggle called without its force argument.
Transition_NoForce(st, isDark) ==
    LET nextTheme == IF isDark THEN "light" ELSE "dark"
        flip(c, t) == IF t \in c THEN c \ {t} ELSE c \cup {t}
    IN  [st EXCEPT !.cls = flip(flip(@, "dark-theme"), "light-theme"),
                   !.store = nextTheme,
                   !.icon = UpdateIcon(nextTheme),
                   !.writes = @ \cup {nextTheme}]

\* Mutant of Transition: the stored name is the theme being left.
Transition_StoresOld(st, isDark) ==
    LET nextTheme == IF isDark THEN "light" ELSE "dark"
    IN  [st EXCEPT !.cls = ClassToggle(ClassToggle(@, "dark-theme", ~isDark),
                                       "light-theme", isDark),
                   !.store = IF isDark THEN "dark" ELSE "light",
                   !.icon = UpdateIcon(nextTheme),
                   !.writes = @ \cup {IF isDark THEN "dark" ELSE "light"}]

\* const transition = () => {...}:  isDark is the value captured by the click
Transition(st, isDark) ==
    LET nextTheme == IF isDark THEN "light" ELSE "dark"
    IN  [st EXCEPT !.cls = ClassToggle(ClassToggle(@, "dark-theme", ~isDark),
                                       "light-theme", isDark),
                   !.store = nextTheme,
                   !.icon = UpdateIcon(nextTheme),
                   !.writes = @ \cup {nextTheme}]

\* Click listener of the first theme module
ThemeClickA(st) ==
    LET isDark == "dark-theme" \in st.cls
    IN  IF hasSVT THEN [st EXCEPT !.vt = Append(@, [isDark |-> isDark])]
                  ELSE Transition(st, isDark)

\* Click listener of the second theme module
ThemeClickB(st) ==
    LET isDark == "dark-theme" \in st.cls
    IN  IF hasSVT THEN [st EXCEPT !.vt = Append(@, [isDark |-> isDark])]
                  ELSE Transition(st, isDark)

SetThemeState(st) ==
    /\ rootClasses' = st.cls
    /\ themeStore' = st.store
    /\ viewTransitions' = st.vt
    /\ toggleIcon' = st.icon
    /\ themeWrites' = st.writes

ThemeInit ==
    /\ hasSVT \in BOOLEAN
    /\ \E store \in StoredThemes :
         LET st == ThemeBoot(store, {})
         IN  /\ rootClasses = st.cls
             /\ themeStore = st.store
             /\ viewTransitions = st.vt
             /\ toggleIcon = st.icon
             /\ themeWrites = st.writes
    /\ clicks = <<>>
    /\ pageLoads = 0
    /\ leftClasses = {}

\* One click event on #theme-toggle: the event is dispatched to the listeners
\* in the order they were registered, within one task.
ToggleClick ==
    /\ Len(clicks) < MaxClicks
    /\ clicks' = Append(clicks, [cls |-> rootClasses, store |-> themeStore,
                                 quiet |-> viewTransitions = <<>>])
    /\ SetThemeState(ThemeClickB(ThemeClickA(ThemeState)))
    /\ UNCHANGED <<hasSVT, pageLoads, leftClasses, themeRest>>

\* The browser runs the oldest pending update callback of a view transition
\* (a skipped transition still runs its callback, in call order).
RunViewTransition ==
    /\ viewTransitions # <<>>
    /\ SetThemeState(Transition([ThemeState EXCEPT !.vt = Tail(@)],
                                Head(viewTransitions).isDark))
    /\ UNCHANGED <<hasSVT, clicks, pageLoads, leftClasses, themeRest>>

\* The page is left and loaded again: localStorage survives, the document and
\* its pending callbacks do not.
Reload ==
    /\ pageLoads < MaxLoads
    /\ pageLoads' = pageLoads + 1
    /\ leftClasses' = rootClasses
    /\ clicks' = <<>>
    /\ SetThemeState(ThemeBoot(themeStore, themeWrites))
    /\ UNCHANGED <<hasSVT, themeRest>>

NextTheme == ToggleClick \/ RunViewTransition \/ Reload

-----------------------------------------------------------------------------
(* Contact form and toasts *)

NoToast == 0

\* showToast(message, type), called by listener `mod` in run `run`; the text
\* of the toast is not part of the state.
\* Gives the toast list and the handle returned (NoToast for undefined).
ShowToast(ts, run, mod, type) ==
    IF ~hasToastContainer
    THEN [toasts |-> ts, handle |-> NoToast]
    ELSE [toasts |-> Append(ts, [run |-> run, mod |-> mod, type |-> type,
                                 hiding |-> FALSE, inDom |-> TRUE,
                                 auto |-> type # "loading", timers |-> 0,
                                 routes |-> <<>>]),
          handle |-> Len(ts) + 1]

\* removeToast of the first contact module: clears the auto-dismiss timer
RemoveToastA(t) ==
    [t EXCEPT !.auto = FALSE, !.hiding = TRUE, !.timers = @ + 1]

\* removeToast of the second contact module: the auto-dismiss timer is left armed
RemoveToastB(t) ==
    [t EXCEPT !.hiding = TRUE, !.timers = @ + 1]

RemoveToast(t) == IF t.mod = "A" THEN RemoveToastA(t) ELSE RemoveToastB(t)

\* removeToast called by way of `route`: the close button ("close"), the
\* handle returned by showToast ("handle") or the auto-dismiss timer ("auto")
RemoveBy(t, route) == [RemoveToast(t) EXCEPT !.routes = Append(@, route)]

\* if (loadingToast) loadingToast.remove();
RemoveLoading(ts, handle) ==
    IF handle = NoToast THEN ts ELSE [ts EXCEPT ![handle] = RemoveBy(@, "handle")]

\* The state a submit listener reads and writes, as one record.
FormState ==
    [disabled |-> btnDisabled, content |-> btnContent, cursor |-> btnCursor,
     toasts |-> toasts, runs |-> runs]

SetFormState(st) ==
    /\ btnDisabled' = st.disabled
    /\ btnContent' = st.content
    /\ btnCursor' = st.cursor
    /\ toasts' = st.toasts
    /\ runs' = st.runs

\* Submit listener up to its first await: disables the button, shows the
\* loading toast and calls fetch.
SubmitStart(st, ev, mod) ==
    LET r == Len(st.runs) + 1
        shown == ShowToast(st.toasts, r, mod, "loading")
    IN  [st EXCEPT !.disabled = TRUE,
                   !.cursor = IF mod = "B" THEN "not-allowed" ELSE @,
                   !.content = "sending",
                   !.toasts = shown.toasts,
                   !.runs = Append(@, [ev |-> ev, mod |-> mod, pc |-> "fetch",
                                       ok |-> FALSE, status |-> "none",
                                       loading |-> shown.handle, outcome |-> "pending",
                                       reset |-> FALSE, endDisabled |-> TRUE,
                                       endContent |-> "sending"])]

\* The listener of run r returns; the record keeps what it left on the button.
Returned(st, r) ==
    [st EXCEPT !.runs[r].pc = "done",
               !.runs[r].endDisabled = st.disabled,
               !.runs[r].endContent = st.content]

\* Mutant of Finally: the button is re-enabled but its content is not put back.
Finally_KeepsSpinner(st, r) ==
    Returned([st EXCEPT !.disabled = FALSE,
                        !.cursor = IF st.runs[r].mod = "B" THEN "" ELSE @], r)

\* finally { submitBtn.disabled = false; ... }  -- the listener then returns
Finally(st, r) ==
    Returned([st EXCEPT !.disabled = FALSE,
                        !.cursor = IF st.runs[r].mod = "B" THEN "" ELSE @,
                        !.content = "original"], r)

\* catch (error) { if (loadingToast) loadingToast.remove(); showToast(..., 'error'); }
Catch(st, r) ==
    LET hidden == RemoveLoading(st.toasts, st.runs[r].loading)
        shown == ShowToast(hidden, r, st.runs[r].mod, "error")
    IN  [st EXCEPT !.toasts = shown.toasts]

\* The statements after `const data = await response.json()` for a body that
\* is an object: remove the loading toast, then the success or the error branch.
OnBody(st, r, body) ==
    LET run == st.runs[r]
        hidden == RemoveLoading(st.toasts, run.loading)
    IN  IF run.ok /\ body.status = "success"
        THEN [st EXCEPT !.toasts = ShowToast(hidden, r, run.mod, "success").toasts,
                        !.runs[r].reset = TRUE]
        ELSE [st EXCEPT !.toasts = ShowToast(hidden, r, run.mod, "error").toasts]

\* The same statements for the body `null`: the loading toast is removed, then
\* reading data.status throws a TypeError, which the catch block handles.
OnNullBody(st, r) ==
    Catch([st EXCEPT !.toasts = RemoveLoading(@, st.runs[r].loading)], r)

\* JSON bodies a server can answer with, told apart by data.status
Bodies == [status : {"success", "error"}]

FormStart ==
    /\ btnDisabled = FALSE
    /\ btnContent = "original"
    /\ btnCursor = ""
    /\ toasts = <<>>
    /\ runs = <<>>
    /\ submits = 0

FormInit ==
    /\ hasToastContainer \in BOOLEAN
    /\ FormStart

\* A page with the contact form left untouched.
FormQuiet ==
    /\ hasToastContainer = TRUE
    /\ FormStart

\* One submit event made by the user (a disabled submit button blocks it); both
\* listeners run up to their await, in registration order.
Submit ==
    /\ submits < MaxSubmits
    /\ ~btnDisabled
    /\ submits' = submits + 1
    /\ SetFormState(SubmitStart(SubmitStart(FormState, submits + 1, "A"),
                                submits + 1, "B"))
    /\ UNCHANGED <<hasToastContainer, formRest>>

\* fetch() of run r rejects: network failure
FetchRejects(r) ==
    /\ runs[r].pc = "fetch"
    /\ SetFormState(Finally(Catch([FormState EXCEPT !.runs[r].outcome = "rejected"],
                                  r), r))
    /\ UNCHANGED <<hasToastContainer, submits, formRest>>

\* fetch() of run r resolves with a response; the listener awaits response.json()
FetchResolves(r, ok) ==
    /\ runs[r].pc = "fetch"
    /\ runs' = [runs EXCEPT ![r].pc = "json", ![r].ok = ok]
    /\ UNCHANGED <<hasToastContainer, btnDisabled, btnContent, btnCursor, toasts,
                   submits, formRest>>

\* response.json() of run r rejects: the body is not JSON
JsonRejects(r) ==
    /\ runs[r].pc = "json"
    /\ SetFormState(Finally(Catch([FormState EXCEPT !.runs[r].outcome = "badjson"],
                                  r), r))
    /\ UNCHANGED <<hasToastContainer, submits, formRest>>

\* response.json() of run r resolves with an object
JsonResolves(r, body) ==
    /\ runs[r].pc = "json"
    /\ SetFormState(Finally(OnBody([FormState EXCEPT !.runs[r].outcome = "parsed",
                                                     !.runs[r].status = body.status],
                                   r, body), r))
    /\ UNCHANGED <<hasToastContainer, submits, formRest>>

\* response.json() of run r resolves with null
JsonResolvesNull(r) ==
    /\ runs[r].pc = "json"
    /\ SetFormState(Finally(OnNullBody([FormState EXCEPT !.runs[r].outcome = "null"],
                                       r), r))
    /\ UNCHANGED <<hasToastContainer, submits, formRest>>

Settles ==
    \E r \in 1..Len(runs) :
        \/ FetchRejects(r)
        \/ \E ok \in BOOLEAN : FetchResolves(r, ok)
        \/ JsonRejects(r)
        \/ \E body \in Bodies : JsonResolves(r, body)
        \/ JsonResolvesNull(r)

NextForm == Submit \/ Settles

\* A click on the close button of toast i
CloseClick(i) ==
    /\ Cardinality({k \in 1..Len(toasts[i].routes) : toasts[i].routes[k] = "close"})
            < MaxCloses
    /\ toasts' = [toasts EXCEPT ![i] = RemoveBy(@, "close")]
    /\ UNCHANGED <<hasToastContainer, btnDisabled, btnContent, btnCursor, runs, submits,
                   formRest>>

\* The setTimeout(removeToast, 5000) of toast i runs
AutoDismissFires(i) ==
    /\ toasts[i].auto
    /\ toasts' = [toasts EXCEPT ![i] = RemoveBy([@ EXCEPT !.auto = FALSE], "auto")]
    /\ UNCHANGED <<hasToastContainer, btnDisabled, btnContent, btnCursor, runs, submits,
                   formRest>>

NextToast ==
    \/ NextForm
    \/ \E i \in 1..Len(toasts) : CloseClick(i)
    \/ \E i \in 1..Len(toasts) : AutoDismissFires(i)

-----------------------------------------------------------------------------
(* Navigation router: scroll spy *)

\* if (window.scrollY < 100) current = '#main'
NearTop == 100

\* window.scrollY + window.innerHeight * 0.4, in tenths
ProbeTenths == 4

NoHash == "<null>"

SectionIds == <<"about", "projects", "contact">>

Hrefs == {"#main", "#about", "#projects", "#contact"}

Bottom(sec) == sec.top + sec.height

Midpoint(sec) == sec.top + sec.height \div 2

\* const scrollPos = window.scrollY + window.innerHeight * 0.4
ScrollPos(y, ih) == y + (ih * ProbeTenths) \div 10

\* for (const sec of sections) { if (scrollPos >= top && scrollPos < bottom) ... break }
\* The index of the first section that holds pos, 0 when none does.
FirstSectionAt(secs, pos) ==
    LET hits == {k \in 1..Len(secs) : pos >= secs[k].top /\ pos < Bottom(secs[k])}
    IN  IF hits = {} THEN 0 ELSE CHOOSE k \in hits : \A j \in hits : k <= j

\* Mutant of CurrentHash: the loop keeps the last section that holds the
\* position (the break is missing).
CurrentHash_NoBreak(secs, y, ih) ==
    LET pos == ScrollPos(y, ih)
        hits == {k \in 1..Len(secs) : pos >= secs[k].top /\ pos < Bottom(secs[k])}
    IN  IF y < NearTop THEN "#main"
        ELSE IF hits = {} THEN NoHash
        ELSE "#" \o secs[CHOOSE k \in hits : \A j \in hits : k >= j].id

\* updateActiveState, first half: the hash of the current section
CurrentHash(secs, y, ih) ==
    IF y < NearTop THEN "#main"
    ELSE LET k == FirstSectionAt(secs, ScrollPos(y, ih))
         IN  IF k = 0 THEN NoHash ELSE "#" \o secs[k].id

\* updateActiveState, second half: every link is cleared, then every
\* a[href="<current>"] gets is-active and aria-current
LinksFor(hash) == {l \in 1..Len(links) : links[l] = hash}

UpdateActiveState(y) == LinksFor(CurrentHash(sections, y, innerHeight))

\* Three sections below a header; the second may be nested inside the first.
Layout(header, heights, nested) ==
    LET top2 == IF nested THEN header + 100 ELSE header + heights[1]
        h2 == IF nested THEN 100 ELSE heights[2]
        top3 == IF nested THEN header + heights[1] ELSE top2 + h2
    IN  << [id |-> SectionIds[1], top |-> header, height |-> heights[1]],
           [id |-> SectionIds[2], top |-> top2, height |-> h2],
           [id |-> SectionIds[3], top |-> top3, height |-> heights[3]] >>

Layouts ==
    {Layout(header, heights, nested) :
        header \in {0, 200}, heights \in [1..3 -> {300, 600}], nested \in BOOLEAN}

LinkLists == UNION {[1..n -> Hrefs] : n \in 0..MaxLinks}

\* the largest scroll offset the document allows
MaxScrollY ==
    LET docHeight == Bottom(sections[Len(sections)])
    IN  IF docHeight > innerHeight THEN docHeight - innerHeight ELSE 0

\* The scroll offsets tried: the top, both sides of the NearTop threshold, each
\* section's top, and the offsets that put the probe line on a section's midpoint.
ScrollStops ==
    {y \in {0, NearTop - 1, NearTop}
            \cup {sections[k].top : k \in 1..Len(sections)}
            \cup {Midpoint(sections[k]) - ScrollPos(0, innerHeight) :
                      k \in 1..Len(sections)} :
        y >= 0 /\ y <= MaxScrollY}

NavInit ==
    /\ innerHeight \in {500, 1000}
    /\ sections \in Layouts
    /\ links \in LinkLists
    /\ scrollY = 0
    /\ activeLinks = {}
    /\ ariaCurrent = {}
    /\ spied = FALSE

\* A page scrolled to the top whose router has not run yet.
NavQuiet ==
    /\ innerHeight = 1000
    /\ sections = Layout(0, [k \in 1..3 |-> 600], FALSE)
    /\ links = <<"#main", "#about", "#projects">>
    /\ scrollY = 0
    /\ activeLinks = {}
    /\ ariaCurrent = {}
    /\ spied = FALSE

\* A scroll event at offset y: the scroll listeners of both routers run
\* updateActiveState (the second run finds nothing to change).
Scroll(y) ==
    /\ y # scrollY
    /\ scrollY' = y
    /\ activeLinks' = UpdateActiveState(y)
    /\ ariaCurrent' = UpdateActiveState(y)
    /\ spied' = TRUE
    /\ UNCHANGED <<innerHeight, sections, links, navRest>>

\* The load event without location.hash: updateActiveState at the current offset
Load ==
    /\ ~spied
    /\ activeLinks' = UpdateActiveState(scrollY)
    /\ ariaCurrent' = UpdateActiveState(scrollY)
    /\ spied' = TRUE
    /\ UNCHANGED <<innerHeight, sections, links, scrollY, navRest>>

NextNav == (\E y \in ScrollStops : Scroll(y)) \/ Load

-----------------------------------------------------------------------------
(* Custom cursor (capability aware, lines 1016-1180).  The earlier cursor    *)
(* module (lines 395-539) runs first when the window is at least 1024 px    *)
(* wide and the pointer is not coarse; it marks the elements it binds with  *)
(* __cursorAttached, so the later module binds only what is left.  Of the   *)
(* earlier module only that marking is modelled here.                       *)

\* setTimeout(() => { isUnlocking = false; }, 200)
UnlockDelay == 200

\* const RING_LERP = lockedItem ? 0.2 : 0.15, in hundredths
LerpLocked == 20
LerpFree == 15

\* const stretch = Math.min(dist * 0.004, 0.3), in thousandths
StretchPerPx == 4
StretchCap == 300

\* let mouseX = -100, mouseY = -100; let ringX = -100, ringY = -100
OffScreen == -100

\* the model's clock advances in halves of the unlocking delay
Tick == UnlockDelay \div 2

NoElement == 0

\* The elements of the page that the cursor code looks at.  kind "link" matches
\* the selector lists of both cursor modules ('a', 'button', ...), "badge" only
\* the later one ('.action-badge', '.tech-tag'), "ignored" carries
\* data-cursor-ignore.  cx, cy, w, h: getBoundingClientRect (centre and size).
Elements ==
    << [kind |-> "link", cx |-> 30, cy |-> 40, w |-> 80, h |-> 30],
       [kind |-> "badge", cx |-> 200, cy |-> 0, w |-> 40, h |-> 40],
       [kind |-> "ignored", cx |-> 0, cy |-> 200, w |-> 20, h |-> 20] >>

ElementIds == 1..Len(Elements)

\* a pointer position outside every element
FreePoints == {<<0, 0>>}

\* shouldIgnore(el)
ShouldIgnore(el) == Elements[el].kind = "ignored"

\* document.querySelectorAll(interactiveSelectors) of the first cursor module
MatchesFirstSelectors(el) == Elements[el].kind \in {"link", "ignored"}

\* document.querySelectorAll(interactiveSelectors) of the capability-aware module
MatchesSelectors(el) == Elements[el].kind \in {"link", "badge", "ignored"}

\* candidates of the first cursor module (lines 453-454)
FirstCandidates(att) ==
    {el \in inDocument : MatchesFirstSelectors(el) /\ att[el] = 0 /\ ~ShouldIgnore(el)}

\* Mutant of Candidates: the __cursorAttached marker is not looked at.
Candidates_IgnoresMarker(att) ==
    {el \in inDocument : MatchesSelectors(el) /\ ~ShouldIgnore(el)}

\* candidates: the elements of the document that match the selectors, are not
\* marked __cursorAttached and are not ignored
Candidates(att) ==
    {el \in inDocument : MatchesSelectors(el) /\ att[el] = 0 /\ ~ShouldIgnore(el)}

\* attachCursorListeners of the first cursor module (lines 452-467)
AttachFirst(att) ==
    [el \in ElementIds |-> IF el \in FirstCandidates(att) THEN 1 ELSE att[el]]

\* attachCursorListeners: elements already marked __cursorAttached are skipped
AttachCursorListeners(att, active) ==
    IF ~active THEN att
    ELSE [el \in ElementIds |-> IF el \in Candidates(att) THEN 2 ELSE att[el]]

\* candidates.forEach: each candidate gets one more mouseenter/mouseleave pair
BindPairs(pairs, candidates) ==
    [el \in ElementIds |-> IF el \in candidates THEN pairs[el] + 1 ELSE pairs[el]]

\* The state the cursor code reads and writes, as one record.
CursorState ==
    [active |-> isCursorActive, bound |-> mouseMoveBound, shown |-> cursorShown,
     locked |-> lockedItem, ringLocked |-> ringLocked, unlocking |-> isUnlocking,
     moved |-> hasMoved, mouse |-> mouse, ring |-> ring, frames |-> pendingFrames,
     timers |-> unlockTimers, att |-> attachedBy, leave |-> lastLeave,
     pairs |-> listenerPairs, firstLocked |-> firstLocked, frame |-> lastFrame,
     fMouse |-> firstMouse, fRing |-> firstRing, fSize |-> firstSize,
     fMoved |-> firstMoved, fIdle |-> firstIdle, fPending |-> firstPending,
     fUnlocking |-> firstUnlocking, fTimers |-> firstTimers]

SetCursorState(st) ==
    /\ isCursorActive' = st.active
    /\ mouseMoveBound' = st.bound
    /\ cursorShown' = st.shown
    /\ lockedItem' = st.locked
    /\ ringLocked' = st.ringLocked
    /\ isUnlocking' = st.unlocking
    /\ hasMoved' = st.moved
    /\ mouse' = st.mouse
    /\ ring' = st.ring
    /\ pendingFrames' = st.frames
    /\ unlockTimers' = st.timers
    /\ attachedBy' = st.att
    /\ lastLeave' = st.leave
    /\ listenerPairs' = st.pairs
    /\ firstLocked' = st.firstLocked
    /\ lastFrame' = st.frame
    /\ firstMouse' = st.fMouse
    /\ firstRing' = st.fRing
    /\ firstSize' = st.fSize
    /\ firstMoved' = st.fMoved
    /\ firstIdle' = st.fIdle
    /\ firstPending' = st.fPending
    /\ firstUnlocking' = st.fUnlocking
    /\ firstTimers' = st.fTimers

\* Mutant of StartCursor: the mousemove listener is not registered.
StartCursor_NoListener(st) ==
    IF st.active THEN st
    ELSE [st EXCEPT !.active = TRUE, !.shown = TRUE,
                    !.att = AttachCursorListeners(@, TRUE), !.frames = @ + 1]

\* startCursor()
StartCursor(st) ==
    IF st.active THEN st
    ELSE [st EXCEPT !.active = TRUE, !.shown = TRUE, !.bound = TRUE,
                    !.att = AttachCursorListeners(@, TRUE),
                    !.pairs = BindPairs(@, Candidates(st.att)),
                    !.frames = @ + 1]

\* stopCursor()
StopCursor(st) ==
    [st EXCEPT !.active = FALSE, !.shown = FALSE, !.bound = FALSE,
               !.locked = NoElement]

\* handleCapabilityChange(e)
HandleCapabilityChange(st, matches) ==
    IF matches THEN StartCursor(st) ELSE StopCursor(st)

\* onMouseMove(e), when registered
OnMouseMove(st, p) ==
    IF ~st.bound THEN st
    ELSE [st EXCEPT !.mouse = p,
                    !.ring = IF st.moved THEN @ ELSE <<p[1], p[2], 1>>,
                    !.moved = TRUE]

\* mouseenter listener bound by attachCursorListeners; an element bound by the
\* first cursor module has that module's listener instead (line 458), which
\* writes to the same ring
OnMouseEnter(st, el) ==
    IF st.att[el] = 2 /\ st.active
    THEN [st EXCEPT !.locked = el, !.ringLocked = TRUE]
    ELSE IF st.att[el] = 1
    THEN [st EXCEPT !.firstLocked = el, !.ringLocked = TRUE]
    ELSE st

\* mouseleave listener bound by attachCursorListeners
OnMouseLeave(st, el, t) ==
    IF st.att[el] = 2 /\ st.active /\ st.locked = el
    THEN [st EXCEPT !.locked = NoElement, !.ringLocked = FALSE, !.unlocking = TRUE,
                    !.timers = @ \cup {t + UnlockDelay}, !.leave = t]
    ELSE IF st.att[el] = 1 /\ st.firstLocked = el
    THEN [st EXCEPT !.firstLocked = NoElement, !.ringLocked = FALSE,
                    !.fUnlocking = TRUE, !.fTimers = @ \cup {t + UnlockDelay}]
    ELSE st

Abs(x) == IF x < 0 THEN -x ELSE x

RECURSIVE Gcd(_, _)
\* greatest common divisor of two naturals
Gcd(a, b) == IF b = 0 THEN a ELSE Gcd(b, a % b)

\* the fraction n / d in lowest terms, d > 0
Frac(n, d) == LET g == Gcd(Abs(n), d) IN <<n \div g, d \div g>>

\* a position <<x, y, d>> (x / d, y / d) in lowest terms
Position(x, y, d) ==
    LET g == Gcd(Gcd(Abs(x), Abs(y)), d) IN <<x \div g, y \div g, d \div g>>

\* the stretch is measured on deltas cut to hundredths of a pixel
DeltaGrid == 100

\* Math.min(dist * 0.004, 0.3), in thousandths (rounded down), from the
\* squared distance d2 = dist ** 2 in squares of 1 / DeltaGrid px
Stretch(d2) ==
    IF StretchPerPx * StretchPerPx * d2 >= StretchCap * StretchCap * DeltaGrid * DeltaGrid
    THEN StretchCap
    ELSE CHOOSE r \in 0..StretchCap :
            /\ r * r * DeltaGrid * DeltaGrid <= StretchPerPx * StretchPerPx * d2
            /\ StretchPerPx * StretchPerPx * d2 < (r + 1) * (r + 1) * DeltaGrid * DeltaGrid

\* Math.atan2(deltaY, deltaX) is kept as the direction; it is 0 exactly for
\* deltaY = 0 and deltaX > 0
NoRotation == [dy |-> 0, dx |-> 1]

\* Mutant of Lerp: the step is taken from the target's side.
Lerp_FromTarget(from, to, percent) == to * 100 + (to - from) * percent

\* ringX += (targetX - ringX) * RING_LERP: the new value times 100, exactly
Lerp(from, to, percent) == from * 100 + (to - from) * percent

NoFrame ==
    [drawn |-> FALSE, locked |-> FALSE, unlocking |-> FALSE,
     inWindow |-> FALSE, scaleX |-> 1000, scaleY |-> 1000, rotation |-> NoRotation,
     w |-> 0, h |-> 0]

\* stretch (in thousandths) for the deltas deltaX / d, deltaY / d
StretchOf(deltaX, deltaY, d) ==
    LET capAt == StretchCap \div StretchPerPx
        gridX == (Abs(deltaX) * DeltaGrid) \div d
        gridY == (Abs(deltaY) * DeltaGrid) \div d
    IN  IF Abs(deltaX) >= capAt * d \/ Abs(deltaY) >= capAt * d THEN StretchCap
        ELSE Stretch(gridX * gridX + gridY * gridY)

\* if (dist > 1) rotation = Math.atan2(deltaY, deltaX), for the deltas
\* deltaX / d, deltaY / d
RotationOf(deltaX, deltaY, d) ==
    LET beyondOne == \/ Abs(deltaX) > d
                     \/ Abs(deltaY) > d
                     \/ deltaX * deltaX + deltaY * deltaY > d * d
        g == Gcd(Abs(deltaX), Abs(deltaY))
    IN  IF beyondOne THEN [dy |-> deltaY \div g, dx |-> deltaX \div g] ELSE NoRotation

\* The drawing part of loop(): what it writes to ring.style.  Scales are in
\* thousandths.  deltaX and deltaY are in units of 1 / d px, d = st.ring[3].
DrawFrame(st, t) ==
    LET locked == st.locked # NoElement
        d == st.ring[3]
        deltaX == st.mouse[1] * d - st.ring[1]
        deltaY == st.mouse[2] * d - st.ring[2]
        stretching == ~locked /\ ~st.unlocking
        stretch == IF stretching THEN StretchOf(deltaX, deltaY, d) ELSE 0
    IN  [drawn |-> TRUE, locked |-> locked, unlocking |-> st.unlocking,
         inWindow |-> st.leave >= 0 /\ t < st.leave + UnlockDelay,
         scaleX |-> 1000 + stretch,
         scaleY |-> 1000 - stretch \div 2,
         rotation |-> IF stretching THEN RotationOf(deltaX, deltaY, d) ELSE NoRotation,
         w |-> IF locked THEN Elements[st.locked].w + 12 ELSE 40,
         h |-> IF locked THEN Elements[st.locked].h + 12 ELSE 40]

\* The target of the ring in loop(): the locked element's centre or the pointer
Target(st) ==
    IF st.locked # NoElement
    THEN <<Elements[st.locked].cx, Elements[st.locked].cy>>
    ELSE st.mouse

\* const RING_LERP = lockedItem ? 0.2 : 0.15
RingLerp(st) == IF st.locked # NoElement THEN LerpLocked ELSE LerpFree

\* The ring position after loop(): it moves toward its target
MoveRing(st) ==
    LET d == st.ring[3]
    IN  Position(Lerp(st.ring[1], Target(st)[1] * d, RingLerp(st)),
                 Lerp(st.ring[2], Target(st)[2] * d, RingLerp(st)),
                 d * 100)

\* const LERP_SPEED = 0.15 of the idle-aware module, in hundredths
LerpSpeed == 15

\* loop() of the idle-aware cursor module (lines 475-537), run at time t: it
\* goes idle and schedules nothing when the ring rests on the pointer at its
\* default size with nothing locked; otherwise it moves and resizes the ring
\* and schedules itself.  What it writes to ring.style is not recorded:
\* lastFrame is the last frame of the capability-aware loop.
FirstLoop(st, t) ==
    LET d == st.fRing[3]
        e == st.fSize[3]
        distMoved == Abs(st.fMouse[1] * d - st.fRing[1])
                        + Abs(st.fMouse[2] * d - st.fRing[2])
        sizeDiff == Abs(st.fSize[1] - 40 * e) + Abs(st.fSize[2] - 40 * e)
        locked == st.firstLocked # NoElement
        targetX == IF locked THEN Elements[st.firstLocked].cx ELSE st.fMouse[1]
        targetY == IF locked THEN Elements[st.firstLocked].cy ELSE st.fMouse[2]
        targetWidth == IF locked THEN Elements[st.firstLocked].w + 16 ELSE 40
        targetHeight == IF locked THEN Elements[st.firstLocked].h + 16 ELSE 40
        newRing == Position(Lerp(st.fRing[1], targetX * d, LerpSpeed),
                            Lerp(st.fRing[2], targetY * d, LerpSpeed), d * 100)
        newSize == Position(Lerp(st.fSize[1], targetWidth * e, LerpSpeed),
                            Lerp(st.fSize[2], targetHeight * e, LerpSpeed), e * 100)
    IN  IF ~st.fMoved THEN [st EXCEPT !.fPending = @ + 1]
        ELSE IF distMoved * 10 < d /\ sizeDiff * 2 < e /\ ~locked /\ ~st.fUnlocking
        THEN [st EXCEPT !.fIdle = TRUE]
        ELSE [st EXCEPT
                !.fRing = newRing,
                !.fSize = newSize,
                !.fPending = @ + 1]

\* mousemove listener of the idle-aware cursor module (lines 418-433); it is
\* registered at load, before onMouseMove, when that module runs
FirstOnMouseMove(st, p, t) ==
    IF ~firstCursorRuns THEN st
    ELSE LET moved == [st EXCEPT !.fMouse = p,
                                 !.fRing = IF st.fMoved THEN @ ELSE <<p[1], p[2], 1>>,
                                 !.fMoved = TRUE]
         IN  IF st.fIdle THEN FirstLoop([moved EXCEPT !.fIdle = FALSE], t) ELSE moved

\* Both cursor modules run over the document as it is at load.
CursorBoot ==
    /\ capMatches \in BOOLEAN
    /\ firstCursorRuns \in BOOLEAN
    /\ LET none == [el \in ElementIds |-> 0]
           fresh == [active |-> FALSE, bound |-> FALSE, shown |-> TRUE,
                     locked |-> NoElement, ringLocked |-> FALSE, unlocking |-> FALSE,
                     moved |-> FALSE, mouse |-> <<OffScreen, OffScreen>>,
                     ring |-> <<OffScreen, OffScreen, 1>>, frames |-> 0, timers |-> {},
                     att |-> IF firstCursorRuns THEN AttachFirst(none) ELSE none,
                     leave |-> -1,
                     pairs |-> IF firstCursorRuns
                               THEN BindPairs(none, FirstCandidates(none))
                               ELSE none,
                     firstLocked |-> NoElement, frame |-> NoFrame,
                     fMouse |-> <<OffScreen, OffScreen>>,
                     fRing |-> <<OffScreen, OffScreen, 1>>, fSize |-> <<40, 40, 1>>,
                     fMoved |-> FALSE, fIdle |-> FALSE,
                     fPending |-> IF firstCursorRuns THEN 1 ELSE 0,
                     fUnlocking |-> FALSE, fTimers |-> {}]
           st == IF capMatches THEN StartCursor(fresh) ELSE fresh
       IN  /\ isCursorActive = st.active
           /\ mouseMoveBound = st.bound
           /\ cursorShown = st.shown
           /\ lockedItem = st.locked
           /\ ringLocked = st.ringLocked
           /\ isUnlocking = st.unlocking
           /\ hasMoved = st.moved
           /\ mouse = st.mouse
           /\ ring = st.ring
           /\ pendingFrames = st.frames
           /\ unlockTimers = st.timers
           /\ attachedBy = st.att
           /\ lastLeave = st.leave
           /\ listenerPairs = st.pairs
           /\ firstLocked = st.firstLocked
           /\ lastFrame = st.frame
           /\ firstMouse = st.fMouse
           /\ firstRing = st.fRing
           /\ firstSize = st.fSize
           /\ firstMoved = st.fMoved
           /\ firstIdle = st.fIdle
           /\ firstPending = st.fPending
           /\ firstUnlocking = st.fUnlocking
           /\ firstTimers = st.fTimers
    /\ rescans = <<>>
    /\ insertedEls = {}
    /\ hovered = NoElement
    /\ now = 0
    /\ framesRun = 0
    /\ capChanges = 0
    /\ pointerMoves = 0

\* A page whose interactive elements are all in the document at load.
CursorInit ==
    /\ inDocument = {el \in ElementIds : ~ShouldIgnore(el)}
    /\ CursorBoot

\* A page that has some of the elements at load; the others may be inserted.
AttachInit ==
    /\ inDocument \in SUBSET ElementIds
    /\ CursorBoot

\* A page whose pointer device has no fine hovering pointer and never moves.
CursorQuiet ==
    /\ capMatches = FALSE /\ firstCursorRuns = FALSE
    /\ isCursorActive = FALSE /\ mouseMoveBound = FALSE /\ cursorShown = TRUE
    /\ lockedItem = NoElement /\ ringLocked = FALSE /\ isUnlocking = FALSE
    /\ hasMoved = FALSE
    /\ mouse = <<OffScreen, OffScreen>> /\ ring = <<OffScreen, OffScreen, 1>>
    /\ pendingFrames = 0 /\ unlockTimers = {}
    /\ attachedBy = [el \in ElementIds |-> 0]
    /\ inDocument = ElementIds /\ rescans = <<>> /\ insertedEls = {}
    /\ listenerPairs = [el \in ElementIds |-> 0] /\ firstLocked = NoElement
    /\ firstMouse = <<OffScreen, OffScreen>> /\ firstRing = <<OffScreen, OffScreen, 1>>
    /\ firstSize = <<40, 40, 1>> /\ firstMoved = FALSE /\ firstIdle = FALSE
    /\ firstPending = 0 /\ firstUnlocking = FALSE /\ firstTimers = {}
    /\ hovered = NoElement /\ now = 0 /\ lastFrame = NoFrame /\ lastLeave = -1
    /\ framesRun = 0
    /\ capChanges = 0
    /\ pointerMoves = 0

\* The change event of capabilityQuery: the query's value flips
CapabilityChange ==
    /\ capChanges < MaxChanges
    /\ capChanges' = capChanges + 1
    /\ capMatches' = ~capMatches
    /\ SetCursorState(HandleCapabilityChange(CursorState, ~capMatches))
    /\ UNCHANGED <<firstCursorRuns, hovered, now, framesRun, pointerMoves, domVars,
                   cursorRest>>

\* The pointer moves onto element el: mouseleave on the element it was over,
\* mouseenter on el, then mousemove at a point inside el
PointerEnters(el) ==
    /\ el \in inDocument
    /\ hovered # el
    /\ hovered' = el
    /\ LET left == IF hovered = NoElement THEN CursorState
                   ELSE OnMouseLeave(CursorState, hovered, now)
           p == <<Elements[el].cx, Elements[el].cy>>
       IN  SetCursorState(OnMouseMove(FirstOnMouseMove(OnMouseEnter(left, el), p, now), p))
    /\ pointerMoves < MaxMoves
    /\ pointerMoves' = pointerMoves + 1
    /\ UNCHANGED <<capMatches, firstCursorRuns, now, framesRun, capChanges, domVars,
                   cursorRest>>

\* The pointer moves to a point p outside every element: mouseleave on the
\* element it was over, then mousemove
PointerMoves(p) ==
    /\ hovered # NoElement \/ mouse # p
    /\ hovered' = NoElement
    /\ LET left == IF hovered = NoElement THEN CursorState
                   ELSE OnMouseLeave(CursorState, hovered, now)
       IN  SetCursorState(OnMouseMove(FirstOnMouseMove(left, p, now), p))
    /\ pointerMoves < MaxMoves
    /\ pointerMoves' = pointerMoves + 1
    /\ UNCHANGED <<capMatches, firstCursorRuns, now, framesRun, capChanges, domVars,
                   cursorRest>>

\* loop() without its requestAnimationFrame(loop) calls
Frame_DropsChain ==
    /\ pendingFrames > 0
    /\ framesRun < MaxFrames
    /\ framesRun' = framesRun + 1
    /\ pendingFrames' = pendingFrames - 1
    /\ IF isCursorActive /\ hasMoved
       THEN /\ lastFrame' = DrawFrame(CursorState, now)
            /\ ring' = MoveRing(CursorState)
       ELSE UNCHANGED <<ring, lastFrame>>
    /\ UNCHANGED <<capMatches, isCursorActive, mouseMoveBound, cursorShown, lockedItem,
                   ringLocked, isUnlocking, hasMoved, mouse, unlockTimers, attachedBy,
                   firstCursorRuns, hovered, now, lastLeave, capChanges, pointerMoves,
                   listenerPairs, firstLocked, firstVars, domVars, cursorRest>>

\* One requestAnimationFrame callback runs loop()
Frame ==
    /\ pendingFrames > 0
    /\ framesRun < MaxFrames
    /\ framesRun' = framesRun + 1
    /\ IF ~isCursorActive
       THEN /\ pendingFrames' = pendingFrames - 1
            /\ UNCHANGED <<ring, lastFrame>>
       ELSE IF ~hasMoved
       THEN UNCHANGED <<pendingFrames, ring, lastFrame>>
       ELSE /\ lastFrame' = DrawFrame(CursorState, now)
            /\ ring' = MoveRing(CursorState)
            /\ UNCHANGED pendingFrames
    /\ UNCHANGED <<capMatches, isCursorActive, mouseMoveBound, cursorShown, lockedItem,
                   ringLocked, isUnlocking, hasMoved, mouse, unlockTimers, attachedBy,
                   firstCursorRuns, hovered, now, lastLeave, capChanges, pointerMoves,
                   listenerPairs, firstLocked, firstVars, domVars, cursorRest>>

\* The setTimeout(() => { isUnlocking = false; }, 200) callbacks that are due
\* run: callbacks armed at the same instant run back to back and do the same
UnlockTimerFires ==
    /\ \E d \in unlockTimers : d <= now
    /\ unlockTimers' = {d \in unlockTimers : d > now}
    /\ isUnlocking' = FALSE
    /\ UNCHANGED <<capMatches, isCursorActive, mouseMoveBound, cursorShown, lockedItem,
                   ringLocked, hasMoved, mouse, ring, pendingFrames, attachedBy,
                   firstCursorRuns, hovered, now, lastFrame, lastLeave, framesRun,
                   capChanges, pointerMoves, listenerPairs, firstLocked, firstVars,
                   domVars, cursorRest>>

\* Time passes; a timer that is due runs before the clock moves on
ClockTick ==
    /\ now < MaxTicks * Tick
    /\ \A d \in unlockTimers \cup firstTimers : d > now
    /\ now' = now + Tick
    /\ UNCHANGED <<capMatches, isCursorActive, mouseMoveBound, cursorShown, lockedItem,
                   ringLocked, isUnlocking, hasMoved, mouse, ring, pendingFrames,
                   unlockTimers, attachedBy, firstCursorRuns, hovered, lastFrame,
                   lastLeave, framesRun, capChanges, pointerMoves, listenerPairs,
                   firstLocked, firstVars, domVars, cursorRest>>

\* Mutant of InsertElement: no MutationObserver callback schedules a rescan.
InsertElement_NoRescan(el) ==
    /\ el \notin inDocument
    /\ inDocument' = inDocument \cup {el}
    /\ insertedEls' = insertedEls \cup {el}
    /\ UNCHANGED <<capMatches, isCursorActive, mouseMoveBound, cursorShown, lockedItem,
                   ringLocked, isUnlocking, hasMoved, mouse, ring, pendingFrames,
                   unlockTimers, attachedBy, firstCursorRuns, hovered, now, lastFrame,
                   lastLeave, framesRun, capChanges, pointerMoves, listenerPairs,
                   firstLocked, firstVars, rescans, cursorRest>>

\* A script inserts element el into the document.  The MutationObserver of
\* each cursor module that is observing runs its callback: the first module
\* schedules a rescan, the capability-aware one only while the cursor is active.
InsertElement(el) ==
    /\ el \notin inDocument
    /\ inDocument' = inDocument \cup {el}
    /\ insertedEls' = insertedEls \cup {el}
    /\ rescans' = rescans \o (IF firstCursorRuns THEN <<1>> ELSE <<>>)
                          \o (IF isCursorActive THEN <<2>> ELSE <<>>)
    /\ UNCHANGED <<capMatches, isCursorActive, mouseMoveBound, cursorShown, lockedItem,
                   ringLocked, isUnlocking, hasMoved, mouse, ring, pendingFrames,
                   unlockTimers, attachedBy, firstCursorRuns, hovered, now, lastFrame,
                   lastLeave, framesRun, capChanges, pointerMoves, listenerPairs,
                   firstLocked, firstVars, cursorRest>>

\* The oldest setTimeout(attachCursorListeners, 50) callback runs
RescanFires ==
    /\ rescans # <<>>
    /\ rescans' = Tail(rescans)
    /\ IF Head(rescans) = 1
       THEN /\ attachedBy' = AttachFirst(attachedBy)
            /\ listenerPairs' = BindPairs(listenerPairs, FirstCandidates(attachedBy))
       ELSE /\ attachedBy' = AttachCursorListeners(attachedBy, isCursorActive)
            /\ listenerPairs' = IF isCursorActive
                                THEN BindPairs(listenerPairs, Candidates(attachedBy))
                                ELSE listenerPairs
    /\ UNCHANGED <<capMatches, isCursorActive, mouseMoveBound, cursorShown, lockedItem,
                   ringLocked, isUnlocking, hasMoved, mouse, ring, pendingFrames,
                   unlockTimers, firstCursorRuns, hovered, now, lastFrame, lastLeave,
                   framesRun, capChanges, pointerMoves, inDocument, firstLocked,
                   insertedEls, firstVars, cursorRest>>

\* The cursor with a document that grows: capability changes, insertions,
\* rescans and pointer movements
NextAttach ==
    \/ CapabilityChange
    \/ \E el \in ElementIds : InsertElement(el)
    \/ RescanFires
    \/ \E el \in ElementIds : PointerEnters(el)
    \/ \E p \in FreePoints : PointerMoves(p)

\* One requestAnimationFrame callback runs loop() of the idle-aware module
FirstFrame ==
    /\ firstPending > 0
    /\ framesRun < MaxFrames
    /\ framesRun' = framesRun + 1
    /\ SetCursorState(FirstLoop([CursorState EXCEPT !.fPending = @ - 1], now))
    /\ UNCHANGED <<capMatches, firstCursorRuns, hovered, now, capChanges, pointerMoves,
                   domVars, cursorRest>>

\* The setTimeout(() => { isUnlocking = false; }, 200) callbacks of the
\* idle-aware module (line 463) that are due run
FirstTimerFires ==
    /\ \E d \in firstTimers : d <= now
    /\ firstTimers' = {d \in firstTimers : d > now}
    /\ firstUnlocking' = FALSE
    /\ UNCHANGED <<capMatches, isCursorActive, mouseMoveBound, cursorShown, lockedItem,
                   ringLocked, isUnlocking, hasMoved, mouse, ring, pendingFrames,
                   unlockTimers, attachedBy, firstCursorRuns, hovered, now, lastFrame,
                   lastLeave, framesRun, capChanges, pointerMoves, listenerPairs,
                   firstLocked, firstMouse, firstRing, firstSize, firstMoved, firstIdle,
                   firstPending, domVars, cursorRest>>

NextCursor ==
    \/ CapabilityChange
    \/ \E el \in ElementIds : PointerEnters(el)
    \/ \E p \in FreePoints : PointerMoves(p)
    \/ Frame
    \/ FirstFrame
    \/ UnlockTimerFires
    \/ FirstTimerFires
    \/ ClockTick

-----------------------------------------------------------------------------
(* Image carousel: main.js 1409-1546.  Time is in seconds. *)

\* slides.length
NumSlides == 3
\* the period of the autoplay interval and the delay of its start
AutoplayPeriod == 3
AutoplayDelay == 1
\* autoPlayInterval before the first setInterval
NoHandle == 0

\* dots.length: one dot per slide
NumDots == NumSlides

\* querySelector('.current-slide') among the elements of is: the first one in
\* document order that carries the class, 0 when none does
FirstMarked(is) == IF is = {} THEN 0 ELSE CHOOSE i \in is : \A j \in is : i <= j

\* moveToSlide(targetIndex) that adds the class and never removes it
MoveToSlide_KeepsOld(c, target) ==
    IF FirstMarked(c.slides) = 0 \/ target \notin 1..NumSlides THEN c
    ELSE [slides |-> c.slides \cup {target},
          dots |-> c.dots \cup ({target} \cap (1..NumDots))]

\* moveToSlide(targetIndex): the slides and dots that carry current-slide
\* afterwards
MoveToSlide(c, target) ==
    IF FirstMarked(c.slides) = 0 \/ target \notin 1..NumSlides THEN c
    ELSE [slides |-> (c.slides \ {FirstMarked(c.slides)}) \cup {target},
          dots |-> (c.dots \ {FirstMarked(c.dots)}) \cup ({target} \cap (1..NumDots))]

\* showNextSlide() that stops at the last slide
ShowNextSlide_NoLoop(c) ==
    MoveToSlide(c, FirstMarked(c.slides) + 1)

ShowNextSlide(c) ==
    LET currentIndex == FirstMarked(c.slides)
    IN  MoveToSlide(c, IF currentIndex + 1 > NumSlides THEN 1 ELSE currentIndex + 1)

ShowPrevSlide(c) ==
    LET currentIndex == FirstMarked(c.slides)
    IN  MoveToSlide(c, IF currentIndex - 1 < 1 THEN NumSlides ELSE currentIndex - 1)

\* index (from 1) of the slide that track.querySelector('.current-slide') finds
currentSlide == FirstMarked(marked.slides)

\* stopAutoplay(): the timers left live
StopAutoplay(live) ==
    IF autoPlayInterval # NoHandle THEN {i \in live : i.id # autoPlayInterval} ELSE live

\* startAutoplay() without its stopAutoplay() call
StartAutoplay_NoClear(live) ==
    /\ handlesIssued' = handlesIssued + 1
    /\ autoPlayInterval' = handlesIssued + 1
    /\ liveIntervals' = live \cup {[id |-> handlesIssued + 1,
                                    due |-> carouselNow + AutoplayPeriod]}

\* startAutoplay(), run with the timers of live still live
StartAutoplay(live) ==
    /\ handlesIssued' = handlesIssued + 1
    /\ autoPlayInterval' = handlesIssued + 1
    /\ liveIntervals' = StopAutoplay(live) \cup {[id |-> handlesIssued + 1,
                                                  due |-> carouselNow + AutoplayPeriod]}

CarouselInit ==
    /\ marked = [slides |-> {1}, dots |-> {1}]
    /\ autoPlayInterval = NoHandle /\ liveIntervals = {} /\ handlesIssued = 0
    /\ startTimeouts = {} /\ isHovered = FALSE /\ intersecting = "none"
    /\ carouselNow = 0 /\ lastAutoAdvance = -1 /\ lastGap = -1 /\ carouselEvents = 0

\* A page without .project-carousel: the module returns at once.
CarouselQuiet ==
    /\ marked = [slides |-> {}, dots |-> {}]
    /\ autoPlayInterval = NoHandle /\ liveIntervals = {} /\ handlesIssued = 0
    /\ startTimeouts = {} /\ isHovered = FALSE /\ intersecting = "none"
    /\ carouselNow = 0 /\ lastAutoAdvance = -1 /\ lastGap = -1 /\ carouselEvents = 0

\* The click listeners of the next button, the previous button and the dots:
\* move, then stopAutoplay(); startAutoplay()
CarouselClick(c) ==
    /\ carouselEvents < MaxCarouselEvents
    /\ carouselEvents' = carouselEvents + 1
    /\ marked' = c
    /\ StartAutoplay(StopAutoplay(liveIntervals))
    /\ UNCHANGED <<startTimeouts, isHovered, intersecting, carouselNow, lastAutoAdvance,
                   lastGap, carouselRest>>

ClickNext == CarouselClick(ShowNextSlide(marked))

ClickPrev == CarouselClick(ShowPrevSlide(marked))

ClickDot(targetIndex) == CarouselClick(MoveToSlide(marked, targetIndex))

\* mouseenter / mouseleave on the carousel
CarouselHover ==
    /\ carouselEvents < MaxCarouselEvents
    /\ carouselEvents' = carouselEvents + 1
    /\ isHovered' = ~isHovered
    /\ UNCHANGED <<marked, autoPlayInterval, liveIntervals, handlesIssued,
                   startTimeouts, intersecting, carouselNow, lastAutoAdvance, lastGap,
                   carouselRest>>

\* The IntersectionObserver callback, for one entry: half of the carousel
\* came into view, or went out of it
Intersection(isIntersecting) ==
    /\ carouselEvents < MaxCarouselEvents
    /\ carouselEvents' = carouselEvents + 1
    /\ intersecting # (IF isIntersecting THEN "in" ELSE "out")
    /\ intersecting' = (IF isIntersecting THEN "in" ELSE "out")
    /\ IF isIntersecting
       THEN /\ startTimeouts' = startTimeouts \cup {carouselNow + AutoplayDelay}
            /\ UNCHANGED liveIntervals
       ELSE /\ liveIntervals' = StopAutoplay(liveIntervals)
            /\ UNCHANGED startTimeouts
    /\ UNCHANGED <<marked, autoPlayInterval, handlesIssued, isHovered, carouselNow,
                   lastAutoAdvance, lastGap, carouselRest>>

\* A setTimeout(startAutoplay, 1000) that is due runs
AutoplayStarts ==
    /\ \E d \in startTimeouts :
            /\ d <= carouselNow
            /\ startTimeouts' = startTimeouts \ {d}
    /\ StartAutoplay(liveIntervals)
    /\ UNCHANGED <<marked, isHovered, intersecting, carouselNow, lastAutoAdvance,
                   lastGap, carouselEvents, carouselRest>>

\* The interval callback without its isHovered test
IntervalFires_IgnoresHover ==
    /\ \E i \in liveIntervals :
            /\ i.due <= carouselNow
            /\ liveIntervals' = (liveIntervals \ {i})
                                    \cup {[i EXCEPT !.due = @ + AutoplayPeriod]}
    /\ marked' = ShowNextSlide(marked)
    /\ lastAutoAdvance' = carouselNow
    /\ lastGap' = IF lastAutoAdvance = -1 THEN -1 ELSE carouselNow - lastAutoAdvance
    /\ UNCHANGED <<autoPlayInterval, handlesIssued, startTimeouts, isHovered,
                   intersecting, carouselNow, carouselEvents, carouselRest>>

\* A live interval that is due runs its callback: if (!isHovered) showNextSlide()
IntervalFires ==
    /\ \E i \in liveIntervals :
            /\ i.due <= carouselNow
            /\ liveIntervals' = (liveIntervals \ {i})
                                    \cup {[i EXCEPT !.due = @ + AutoplayPeriod]}
    /\ IF isHovered
       THEN UNCHANGED <<marked, lastAutoAdvance, lastGap>>
       ELSE /\ marked' = ShowNextSlide(marked)
            /\ lastAutoAdvance' = carouselNow
            /\ lastGap' = IF lastAutoAdvance = -1 THEN -1
                          ELSE carouselNow - lastAutoAdvance
    /\ UNCHANGED <<autoPlayInterval, handlesIssued, startTimeouts, isHovered,
                   intersecting, carouselNow, carouselEvents, carouselRest>>

\* A second passes; the timers that are due run first
CarouselTick ==
    /\ carouselNow < MaxCarouselTicks
    /\ \A d \in startTimeouts : d > carouselNow
    /\ \A i \in liveIntervals : i.due > carouselNow
    /\ carouselNow' = carouselNow + 1
    /\ UNCHANGED <<marked, autoPlayInterval, liveIntervals, handlesIssued,
                   startTimeouts, isHovered, intersecting, lastAutoAdvance, lastGap,
                   carouselEvents, carouselRest>>

NextCarousel ==
    \/ ClickNext
    \/ ClickPrev
    \/ \E targetIndex \in 1..NumDots : ClickDot(targetIndex)
    \/ CarouselHover
    \/ \E isIntersecting \in BOOLEAN : Intersection(isIntersecting)
    \/ AutoplayStarts
    \/ IntervalFires
    \/ CarouselTick

-----------------------------------------------------------------------------
(* Missing elements.  main.js is one script of function calls run in order:
   an exception that one of them raises at load ends the script. *)

\* The modules that look up the elements below, in the order of the script:
\* lines 7, 542, 640, 1183, 1286 and 1410
GuardModules == <<"theme", "contact", "theme", "contact", "rail", "carousel">>

\* the elements looked up, and for each the element it is looked up in
\* ("document" for the whole document)
Expected ==
    [modal |-> "document", closeBtn |-> "document", grid |-> "document",
     refreshBtn |-> "document", form |-> "document", submitBtn |-> "form",
     tocNav |-> "document", svg |-> "tocNav", carousel |-> "document",
     track |-> "carousel"]

Pages ==
    {els \in SUBSET DOMAIN Expected :
        \A el \in els : Expected[el] = "document" \/ Expected[el] \in els}

\* Module m reads a property of null while it initialises:
\* submitBtn.innerHTML (lines 546, 1187), svg.querySelector (line 1291),
\* track.children (line 1414)
ThrowsAtLoad(m) ==
    \/ m = "contact" /\ "form" \in page /\ "submitBtn" \notin page
    \/ m = "rail" /\ "tocNav" \in page /\ "svg" \notin page
    \/ m = "carousel" /\ "carousel" \in page /\ "track" \notin page

GuardInit ==
    /\ page \in Pages
    /\ scriptPos = 1 /\ raised = {}
    /\ closeListeners = 0 /\ refreshListeners = 0
    /\ cardsRendered = FALSE /\ modalTimers = 0 /\ guardEvents = 0

\* A page that has every expected element, before the script runs.
GuardQuiet ==
    /\ page = DOMAIN Expected
    /\ scriptPos = 1 /\ raised = {}
    /\ closeListeners = 0 /\ refreshListeners = 0
    /\ cardsRendered = FALSE /\ modalTimers = 0 /\ guardEvents = 0

\* The script runs its next module.
RunModule ==
    LET m == GuardModules[scriptPos]
    IN  /\ scriptPos <= Len(GuardModules)
        /\ IF ThrowsAtLoad(m)
           THEN /\ raised' = raised \cup {<<m, "load">>}
                /\ scriptPos' = Len(GuardModules) + 1
                /\ UNCHANGED <<closeListeners, refreshListeners>>
           ELSE /\ scriptPos' = scriptPos + 1
                /\ closeListeners' = closeListeners
                        + (IF m = "theme" /\ "closeBtn" \in page THEN 1 ELSE 0)
                /\ refreshListeners' = refreshListeners
                        + (IF m = "theme" /\ "refreshBtn" \in page THEN 1 ELSE 0)
                /\ UNCHANGED raised
        /\ UNCHANGED <<page, cardsRendered, modalTimers, guardEvents, guardRest>>

\* A click on #close-theme-modal: closeBtn.addEventListener('click', () => modal.close())
ClickClose ==
    /\ closeListeners > 0
    /\ guardEvents < MaxGuardEvents
    /\ guardEvents' = guardEvents + 1
    /\ raised' = IF "modal" \in page THEN raised ELSE raised \cup {<<"theme", "close">>}
    /\ UNCHANGED <<page, scriptPos, closeListeners, refreshListeners, cardsRendered,
                   modalTimers, guardRest>>

\* A click on #refresh-palettes: renderPalettes()
ClickRefresh ==
    /\ refreshListeners > 0
    /\ guardEvents < MaxGuardEvents
    /\ guardEvents' = guardEvents + 1
    /\ cardsRendered' = (cardsRendered \/ "grid" \in page)
    /\ UNCHANGED <<page, scriptPos, raised, closeListeners, refreshListeners,
                   modalTimers, guardRest>>

\* A click on a palette card: applyPalette(colors); setTimeout(() => modal.close(), 300)
ClickCard ==
    /\ cardsRendered
    /\ guardEvents < MaxGuardEvents
    /\ guardEvents' = guardEvents + 1
    /\ modalTimers' = modalTimers + 1
    /\ UNCHANGED <<page, scriptPos, raised, closeListeners, refreshListeners,
                   cardsRendered, guardRest>>

\* The timer of a card click runs modal.close()
ModalTimerFires ==
    /\ modalTimers > 0
    /\ modalTimers' = modalTimers - 1
    /\ raised' = IF "modal" \in page THEN raised ELSE raised \cup {<<"theme", "card">>}
    /\ UNCHANGED <<page, scriptPos, closeListeners, refreshListeners, cardsRendered,
                   guardEvents, guardRest>>

NextGuards ==
    \/ RunModule
    \/ ClickClose
    \/ ClickRefresh
    \/ ClickCard
    \/ ModalTimerFires

-----------------------------------------------------------------------------
(* Scroll reveal: main.js 381-390 and 1002-1012.  Both generations of the
   module run, each with its own IntersectionObserver over the same elements. *)

RevealElements == {"hero", "card"}
Observers == {"A", "B"}

\* entries.forEach body for one entry, on the state of one observer's callback:
\* if (entry.isIntersecting) { classList.add('is-revealed'); observer.unobserve(target); }
RevealEntry_KeepsObserving(st, entry) ==
    IF entry.isIntersecting
    THEN [st EXCEPT !.revealed = @ \cup {entry.target},
                    !.reported = @ \cup {entry.target}]
    ELSE st

RevealEntry(st, entry) ==
    IF entry.isIntersecting
    THEN [st EXCEPT !.revealed = @ \cup {entry.target},
                    !.observed = @ \ {entry.target},
                    !.reported = @ \cup {entry.target}]
    ELSE st

RECURSIVE RevealEntries(_, _)
\* entries.forEach(...)
RevealEntries(st, entries) ==
    IF entries = <<>> THEN st
    ELSE RevealEntries(RevealEntry(st, Head(entries)), Tail(entries))

RevealStart ==
    /\ observedBy = [o \in Observers |-> RevealElements]
    /\ entryQueue = [o \in Observers |->
                        <<[target |-> "hero", isIntersecting |-> nowIntersecting["hero"]],
                          [target |-> "card", isIntersecting |-> nowIntersecting["card"]]>>]
    /\ revealed = {} /\ reportedBy = [o \in Observers |-> {}] /\ scrolls = 0

\* observer.observe(el) queues a first entry for every element
RevealInit ==
    /\ nowIntersecting \in [RevealElements -> BOOLEAN]
    /\ RevealStart

\* A page whose animated elements are out of view and stay there.
RevealQuiet ==
    /\ nowIntersecting = [el \in RevealElements |-> FALSE]
    /\ RevealStart

\* Scrolling takes el across the threshold: every observer that observes it
\* queues an entry
ThresholdCrossed(el) ==
    /\ scrolls < MaxScrolls
    /\ scrolls' = scrolls + 1
    /\ nowIntersecting' = [nowIntersecting EXCEPT ![el] = ~@]
    /\ entryQueue' = [o \in Observers |->
                        IF el \in observedBy[o]
                        THEN Append(entryQueue[o],
                                    [target |-> el, isIntersecting |-> ~nowIntersecting[el]])
                        ELSE entryQueue[o]]
    /\ UNCHANGED <<observedBy, revealed, reportedBy, revealRest>>

\* The callback of observer o runs over its queued entries
RevealCallback(o) ==
    /\ entryQueue[o] # <<>>
    /\ LET st == RevealEntries([revealed |-> revealed, observed |-> observedBy[o],
                                reported |-> reportedBy[o]], entryQueue[o])
       IN  /\ revealed' = st.revealed
           /\ observedBy' = [observedBy EXCEPT ![o] = st.observed]
           /\ reportedBy' = [reportedBy EXCEPT ![o] = st.reported]
    /\ entryQueue' = [entryQueue EXCEPT ![o] = <<>>]
    /\ UNCHANGED <<nowIntersecting, scrolls, revealRest>>

NextReveal ==
    \/ \E el \in RevealElements : ThresholdCrossed(el)
    \/ \E o \in Observers : RevealCallback(o)

-----------------------------------------------------------------------------
(* Colour palettes: main.js 645-801 and 834-848.  A colour is <<r, g, b>>;
   saturation and lightness are in tenths of a percent. *)

\* PALETTE_LIBRARY (its first two palettes); the first is DEFAULT_PALETTE
PaletteLibrary ==
    << << <<15, 76, 117>>, <<50, 130, 184>>, <<187, 225, 250>>, <<27, 38, 44>> >>,
       << <<27, 60, 83>>, <<35, 76, 106>>, <<69, 104, 130>>, <<227, 227, 227>> >> >>

DefaultPalette == PaletteLibrary[1]

\* JSON.stringify(colors) and JSON.parse of it
Stringify(colors) == <<"json", colors>>
Parse(item) == item[2]

\* What localStorage 'custom-palette' may hold at load: nothing, a palette of
\* the library, or an array of three or of five colours written by other code
StoredPalettes ==
    {NoItem,
     Stringify(PaletteLibrary[2]),
     Stringify(<< <<33, 52, 72>>, <<84, 119, 146>>, <<148, 180, 193>> >>),
     Stringify(<< <<5, 14, 60>>, <<0, 36, 85>>, <<220, 0, 0>>, <<255, 56, 56>>,
                  <<255, 255, 255>> >>)}

\* JSON.parse(localStorage.getItem('custom-palette')) || DEFAULT_PALETTE
SavedPalette(item) == IF item = NoItem THEN DefaultPalette ELSE Parse(item)

\* Math.round(n / d), d > 0
RoundDiv(n, d) == (2 * n + d) \div (2 * d)

Least(a, b) == IF a < b THEN a ELSE b

\* hexToHSL(H)
HexToHSL(c) ==
    LET r == c[1]
        g == c[2]
        b == c[3]
        cmin == Least(r, Least(g, b))
        cmax == -Least(-r, Least(-g, -b))
        delta == cmax - cmin
        rounded == IF delta = 0 THEN 0
                   ELSE IF cmax = r THEN RoundDiv(60 * (g - b), delta)
                   ELSE IF cmax = g THEN RoundDiv(60 * (b - r) + 120 * delta, delta)
                   ELSE RoundDiv(60 * (r - g) + 240 * delta, delta)
    IN  [h |-> IF rounded < 0 THEN rounded + 360 ELSE rounded,
         s |-> IF delta = 0 THEN 0
               ELSE RoundDiv(1000 * delta, 255 - Abs(cmax + cmin - 255)),
         l |-> RoundDiv(1000 * (cmax + cmin), 510)]

\* const vars = ['--p', '--s', '--t', '--n']
Prefixes == <<"--p", "--s", "--t", "--n">>

StyleNames == {<<Prefixes[k], part>> : k \in 1..4, part \in {"h", "s", "l"}}

\* the value of a custom property that is not set
NoValue == -1

\* Math.min(hsl.s, 20) + '%', in tenths
NeutralCap == 200

\* The body of colors.forEach for the colour at position index (from 1),
\* without its if (index > 3) return: colours past the fourth land on the last
\* prefix
SetColor_NoLimit(st, hex, index) ==
    LET hsl == HexToHSL(hex)
        prefix == Prefixes[Least(index, 4)]
    IN  [st EXCEPT !.style = [@ EXCEPT ![<<prefix, "h">>] = hsl.h,
                                       ![<<prefix, "s">>] = hsl.s,
                                       ![<<prefix, "l">>] = hsl.l]]

\* The body of colors.forEach for the colour at position index (from 1)
SetColor(st, hex, index) ==
    LET hsl == HexToHSL(hex)
        prefix == Prefixes[index]
    IN  IF index > 4 THEN st
        ELSE IF index = 1
        THEN [st EXCEPT !.style = [@ EXCEPT ![<<prefix, "h">>] = hsl.h,
                                            ![<<prefix, "s">>] = hsl.s,
                                            ![<<prefix, "l">>] = hsl.l],
                        !.btn = "#ffffff"]
        ELSE IF index = 4
        THEN [st EXCEPT !.style = [@ EXCEPT ![<<prefix, "h">>] = hsl.h,
                                            ![<<prefix, "s">>] = Least(hsl.s, NeutralCap),
                                            ![<<prefix, "l">>] = NoValue]]
        ELSE [st EXCEPT !.style = [@ EXCEPT ![<<prefix, "h">>] = hsl.h,
                                            ![<<prefix, "s">>] = hsl.s,
                                            ![<<prefix, "l">>] = hsl.l]]

RECURSIVE SetColors(_, _, _)
\* colors.forEach((hex, index) => ...), from position index on
SetColors(st, colors, index) ==
    IF index > Len(colors) THEN st
    ELSE SetColors(SetColor(st, colors[index], index), colors, index + 1)

\* The page as applyPalette reads and writes it, as one record.
PaletteState ==
    [style |-> rootStyle, btn |-> btnTextColor, meta |-> metaColor,
     store |-> paletteStore, cards |-> cards, active |-> activeCards]

SetPaletteState(st) ==
    /\ rootStyle' = st.style
    /\ btnTextColor' = st.btn
    /\ metaColor' = st.meta
    /\ paletteStore' = st.store
    /\ cards' = st.cards
    /\ activeCards' = st.active

\* applyPalette(colors), with updateMetaThemeColor and updateActiveGridState
ApplyPalette(st, colors) ==
    [SetColors([st EXCEPT !.meta = IF colors = <<>> THEN <<>> ELSE colors[1]],
               colors, 1) EXCEPT
        !.store = Stringify(colors),
        !.active = {i \in 1..Len(st.cards) : st.cards[i] = colors}]

\* renderPalettes(): the current palette first, then the others of the
\* library (at most three of them, in an order of chance: here all, in order)
RenderPalettes(st) ==
    LET current == SavedPalette(st.store)
        others == SelectSeq(PaletteLibrary, LAMBDA p : p # current)
    IN  [st EXCEPT !.cards = <<current>> \o others, !.active = {1}]

\* Both theme modules run applyPalette(savedPalette) at load.
PaletteBoot(item) ==
    ApplyPalette(ApplyPalette([style |-> [n \in StyleNames |-> NoValue], btn |-> "",
                               meta |-> <<>>, store |-> item, cards |-> <<>>,
                               active |-> {}],
                              SavedPalette(item)),
                 SavedPalette(item))

PaletteStart(item) ==
    /\ LET st == PaletteBoot(item)
       IN  /\ rootStyle = st.style /\ btnTextColor = st.btn /\ metaColor = st.meta
           /\ paletteStore = st.store /\ cards = st.cards /\ activeCards = st.active
    /\ modalOpen = FALSE /\ modalCloseTimers = 0 /\ paletteVT = <<>>
    /\ lastClicked = <<>> /\ paletteClicks = 0

PaletteInit ==
    /\ paletteSVT \in BOOLEAN
    /\ \E item \in StoredPalettes : PaletteStart(item)

\* A page whose palette picker is left alone.
PaletteQuiet ==
    /\ paletteSVT = FALSE
    /\ PaletteStart(NoItem)

\* A click on #palette-toggle: both modules' listeners run renderPalettes() and
\* modal.showModal()
OpenPalettes ==
    /\ ~modalOpen
    /\ modalOpen' = TRUE
    /\ SetPaletteState(RenderPalettes(RenderPalettes(PaletteState)))
    /\ UNCHANGED <<modalCloseTimers, paletteSVT, paletteVT, lastClicked, paletteClicks,
                   paletteRest>>

\* A click on #refresh-palettes: both modules' listeners run renderPalettes()
RefreshPalettes ==
    /\ modalOpen
    /\ SetPaletteState(RenderPalettes(RenderPalettes(PaletteState)))
    /\ UNCHANGED <<modalOpen, modalCloseTimers, paletteSVT, paletteVT, lastClicked,
                   paletteClicks, paletteRest>>

\* A click on card i
CardClick(i) ==
    /\ modalOpen
    /\ paletteClicks < MaxPaletteClicks
    /\ paletteClicks' = paletteClicks + 1
    /\ lastClicked' = cards[i]
    /\ IF paletteSVT
       THEN /\ paletteVT' = Append(paletteVT, cards[i])
            /\ UNCHANGED <<rootStyle, btnTextColor, metaColor, paletteStore, cards,
                           activeCards>>
       ELSE /\ SetPaletteState(ApplyPalette(PaletteState, cards[i]))
            /\ UNCHANGED paletteVT
    /\ modalCloseTimers' = modalCloseTimers + 1
    /\ UNCHANGED <<modalOpen, paletteSVT, paletteRest>>

\* The callback given to document.startViewTransition runs
PaletteTransitionRuns ==
    /\ paletteVT # <<>>
    /\ SetPaletteState(ApplyPalette(PaletteState, Head(paletteVT)))
    /\ paletteVT' = Tail(paletteVT)
    /\ UNCHANGED <<modalOpen, modalCloseTimers, paletteSVT, lastClicked, paletteClicks,
                   paletteRest>>

\* The timer of a card click runs modal.close()
ModalCloseFires ==
    /\ modalCloseTimers > 0
    /\ modalCloseTimers' = modalCloseTimers - 1
    /\ modalOpen' = FALSE
    /\ UNCHANGED <<rootStyle, btnTextColor, metaColor, paletteStore, cards, activeCards,
                   paletteSVT, paletteVT, lastClicked, paletteClicks, paletteRest>>

NextPalette ==
    \/ OpenPalettes
    \/ RefreshPalettes
    \/ \E i \in 1..Len(cards) : CardClick(i)
    \/ PaletteTransitionRuns
    \/ ModalCloseFires

-----------------------------------------------------------------------------
(* Theme initialisation, statement by statement: main.js 181-186 and 803-807.
   The first theme module runs, then the second; an exception ends the script. *)

\* What localStorage 'custom-palette' may hold at load besides the values of
\* StoredPalettes: an empty array, JSON of another shape (a non-empty string,
\* an object), or text that is not JSON
OddItems ==
    {Stringify(<<>>), <<"other", "string">>, <<"other", "object">>, <<"text", "not JSON">>}

BootStart(theme, item) ==
    /\ bootTheme = theme
    /\ bootPage = [style |-> [n \in StyleNames |-> NoValue], btn |-> "", meta |-> <<>>,
                   store |-> item, cards |-> <<>>, active |-> {}]
    /\ bootClasses = {}
    /\ bootPc = [mod |-> 1, at |-> "parse"]
    /\ bootRaised = {}

BootInit ==
    \E theme \in StoredThemes :
        \/ \E item \in StoredPalettes : BootStart(theme, item)
        \/ \E item \in OddItems : BootStart(theme, item)

\* A first visit: nothing stored, the script not yet run.
BootQuiet == BootStart(NoItem, NoItem)

\* the script after the statement that ends theme module mod
AfterModule(mod) ==
    IF mod = 1 THEN [mod |-> 2, at |-> "parse"] ELSE [mod |-> 2, at |-> "done"]

\* the script after an uncaught exception
Ended == [mod |-> 2, at |-> "ended"]

\* const savedPalette = JSON.parse(localStorage.getItem('custom-palette')) || DEFAULT_PALETTE;
\* JSON.parse raises a SyntaxError on text that is not JSON
BootParse ==
    /\ bootPc.at = "parse"
    /\ IF bootPage.store # NoItem /\ bootPage.store[1] = "text"
       THEN /\ bootRaised' = bootRaised \cup {<<bootPc.mod, "JSON.parse">>}
            /\ bootPc' = Ended
       ELSE /\ bootPc' = [bootPc EXCEPT !.at = "class"]
            /\ UNCHANGED bootRaised
    /\ UNCHANGED <<bootTheme, bootPage, bootClasses, bootRest>>

\* root.classList.add(savedTheme === 'dark' ? 'dark-theme' : 'light-theme');
BootClass ==
    /\ bootPc.at = "class"
    /\ bootClasses' = bootClasses \cup {ThemeClass(SavedTheme(bootTheme))}
    /\ bootPc' = [bootPc EXCEPT !.at = "apply"]
    /\ UNCHANGED <<bootTheme, bootPage, bootRaised, bootRest>>

\* applyPalette(savedPalette): a value that is not an array has no forEach,
\* and colors.forEach raises a TypeError after updateMetaThemeColor(colors[0])
BootApply ==
    /\ bootPc.at = "apply"
    /\ IF bootPage.store # NoItem /\ bootPage.store[1] = "other"
       THEN /\ bootPage' = [bootPage EXCEPT !.meta = <<"colors[0] of", bootPage.store[2]>>]
            /\ bootRaised' = bootRaised \cup {<<bootPc.mod, "colors.forEach">>}
            /\ bootPc' = Ended
       ELSE /\ bootPage' = ApplyPalette(bootPage, SavedPalette(bootPage.store))
            /\ bootPc' = AfterModule(bootPc.mod)
            /\ UNCHANGED bootRaised
    /\ UNCHANGED <<bootTheme, bootClasses, bootRest>>

NextBoot == BootParse \/ BootClass \/ BootApply

-----------------------------------------------------------------------------
(* Specifications *)


ThemeQuiet ==
    /\ hasSVT = FALSE
    /\ rootClasses = {"light-theme"} /\ themeStore = NoItem
    /\ viewTransitions = <<>> /\ toggleIcon = "sun" /\ themeWrites = {}
    /\ clicks = <<>> /\ pageLoads = 0 /\ leftClasses = {}

\* The modules of the first four sections on a page that leaves them idle
CoreQuiet == ThemeQuiet /\ FormQuiet /\ NavQuiet /\ CursorQuiet

\* The other modules on a page that leaves them idle
WidgetsQuiet == CarouselQuiet /\ GuardQuiet /\ RevealQuiet /\ PaletteQuiet /\ BootQuiet

\* The page at load as the carousel sees it; the other modules stay quiet.
InitCarousel == CarouselInit /\ CoreQuiet /\ GuardQuiet /\ RevealQuiet /\ PaletteQuiet /\ BootQuiet

\* The document before the script runs, with part of the expected elements
InitGuards == GuardInit /\ CoreQuiet /\ CarouselQuiet /\ RevealQuiet /\ PaletteQuiet /\ BootQuiet

\* The page once both reveal modules observe the animated elements
InitReveal == RevealInit /\ CoreQuiet /\ CarouselQuiet /\ GuardQuiet /\ PaletteQuiet /\ BootQuiet

\* The page once both theme modules have applied the saved palette
InitPalette ==
    PaletteInit /\ CoreQuiet /\ CarouselQuiet /\ GuardQuiet /\ RevealQuiet /\ BootQuiet

\* The stored values before the script runs
InitBoot ==
    BootInit /\ CoreQuiet /\ CarouselQuiet /\ GuardQuiet /\ RevealQuiet /\ PaletteQuiet

SpecBoot == InitBoot /\ [][NextBoot]_vars

SpecPalette == InitPalette /\ [][NextPalette]_vars

SpecReveal == InitReveal /\ [][NextReveal]_vars

SpecGuards == InitGuards /\ [][NextGuards]_vars

SpecCarousel == InitCarousel /\ [][NextCarousel]_vars

\* The page at load as the theme module sees it; the other modules stay quiet.
InitTheme == ThemeInit /\ FormQuiet /\ NavQuiet /\ CursorQuiet /\ WidgetsQuiet

SpecTheme == InitTheme /\ [][NextTheme]_vars

\* The page at load as the navigation module sees it; the other modules stay quiet.
InitNav == NavInit /\ ThemeQuiet /\ FormQuiet /\ CursorQuiet /\ WidgetsQuiet

SpecNav == InitNav /\ [][NextNav]_vars

\* The page at load as the cursor module sees it; the other modules stay quiet.
InitCursor == CursorInit /\ ThemeQuiet /\ FormQuiet /\ NavQuiet /\ WidgetsQuiet

SpecCursor == InitCursor /\ [][NextCursor]_vars

\* The page at load with part of its elements; the other modules stay quiet.
InitAttach == AttachInit /\ ThemeQuiet /\ FormQuiet /\ NavQuiet /\ WidgetsQuiet

SpecAttach == InitAttach /\ [][NextAttach]_vars

\* A timeout that was set runs.
SpecAttachLive == SpecAttach /\ WF_vars(RescanFires)

\* The page at load as the contact form sees it; the other modules stay quiet.
InitForm == FormInit /\ ThemeQuiet /\ NavQuiet /\ CursorQuiet /\ WidgetsQuiet

SpecForm == InitForm /\ [][NextForm]_vars

\* every request settles: fetch() and response.json() each resolve or reject
SpecFormLive == SpecForm /\ WF_vars(Settles)

\* The contact form with the close buttons and auto-dismiss timers of its toasts
SpecToast == InitForm /\ [][NextToast]_vars

-----------------------------------------------------------------------------
(* Properties of the contact form *)

\* the listener runs started by submit event e
EventRuns(e) == {r \in 1..Len(runs) : runs[r].ev = e}

\* the toasts of one type shown by the listeners of submit event e
EventToasts(e, type) ==
    {i \in 1..Len(toasts) : runs[toasts[i].run].ev = e /\ toasts[i].type = type}

EventEnded(e, outcomes) ==
    \A r \in EventRuns(e) : runs[r].pc = "done" /\ runs[r].outcome \in outcomes

\* C5: on a page with the toast container, a submission whose fetch rejects
\* has its loading toast removed, shows exactly one error toast and no success
\* toast, does not reset the form and ends with the button enabled and restored.
C5_RejectedFetchOneErrorToast ==
    hasToastContainer =>
        \A e \in 1..submits :
            EventEnded(e, {"rejected"}) =>
                /\ \A i \in EventToasts(e, "loading") : toasts[i].hiding
                /\ Cardinality(EventToasts(e, "error")) = 1
                /\ EventToasts(e, "success") = {}
                /\ \A r \in EventRuns(e) :
                       ~runs[r].reset /\ ~runs[r].endDisabled
                           /\ runs[r].endContent = "original"

\* C6: on a page with the toast container, a submission whose request settles
\* with a parsed JSON body shows exactly one result toast, a success toast
\* exactly when the response is ok with status "success", and resets the form
\* exactly when the success toast was shown.
C6_OneResultToast ==
    hasToastContainer =>
        \A e \in 1..submits :
            EventEnded(e, {"parsed", "null"}) =>
                /\ Cardinality(EventToasts(e, "success") \cup EventToasts(e, "error")) = 1
                /\ \A r \in EventRuns(e) :
                       LET succeeded == \E i \in EventToasts(e, "success") :
                                           toasts[i].run = r
                       IN  /\ succeeded <=> (runs[r].ok /\ runs[r].status = "success")
                           /\ runs[r].reset <=> succeeded

\* C7: every submission ends, whatever the outcome of its request, with the
\* submit button enabled and its original content restored.
AllEndedEnabled ==
    /\ \A r \in 1..Len(runs) :
           /\ runs[r].pc = "done"
           /\ ~runs[r].endDisabled /\ runs[r].endContent = "original"
    /\ ~btnDisabled /\ btnContent = "original"

C7_SubmitEndsEnabled == []<>AllEndedEnabled

C7_Witness ==
    /\ Len(runs) = 2
    /\ runs[1].pc = "done" /\ runs[1].outcome = "badjson"
    /\ runs[2].pc = "done" /\ runs[2].outcome = "parsed" /\ ~runs[2].ok
    /\ ~btnDisabled /\ btnContent = "original"

-----------------------------------------------------------------------------
(* Properties of the theme module *)

ThemeClasses == {"dark-theme", "light-theme"}

OtherThemeClass(classes) == ThemeClasses \ classes

\* the theme named by the class on root
ThemeNameOf(classes) == IF "dark-theme" \in classes THEN "dark" ELSE "light"

\* every click so far has been handled completely
ThemeSettled == viewTransitions = <<>>

\* C1: one click, once all its listeners (and the transitions they started)
\* have run, leaves root with the opposite theme class and 'theme' naming it.
C1_OneClickToggles ==
    (Len(clicks) = 1 /\ ThemeSettled) =>
        /\ rootClasses = OtherThemeClass(clicks[1].cls)
        /\ themeStore = ThemeNameOf(rootClasses)

\* C2 as stated: from stored 'theme' absent, "light" or "dark", two clicks
\* restore both the class on root and the stored value.
C2_TwoClicksRestore ==
    \A n \in 2..Len(clicks) :
        (n = Len(clicks) /\ ThemeSettled
            /\ clicks[n-1].store \in {NoItem, "light", "dark"}) =>
            /\ rootClasses = clicks[n-1].cls
            /\ themeStore = clicks[n-1].store

\* C2 amended: from stored 'theme' "light" or "dark", two clicks that each
\* arrive when no transition callback is pending restore class and stored value.
C2_TwoQuietClicksRestore ==
    \A n \in 2..Len(clicks) :
        (n = Len(clicks) /\ ThemeSettled
            /\ clicks[n-1].quiet /\ clicks[n].quiet
            /\ clicks[n-1].store \in {"light", "dark"}) =>
            /\ rootClasses = clicks[n-1].cls
            /\ themeStore = clicks[n-1].store

C2_Witness ==
    /\ hasSVT /\ Len(clicks) = 3 /\ ThemeSettled
    /\ clicks[2].quiet /\ clicks[3].quiet
    /\ clicks[2].store = "dark" /\ clicks[3].store = "light"

\* C3: re-initialisation applies the class root carried when the previous
\* page was left; a stored value other than "dark" (or none) gives light-theme.
C3_ThemePersists ==
    clicks = <<>> =>
        /\ pageLoads > 0 => rootClasses = leftClasses
        /\ themeStore # "dark" => rootClasses = {"light-theme"}

C3_Witness ==
    /\ pageLoads > 0 /\ clicks = <<>>
    /\ leftClasses = {"dark-theme"} /\ "dark" \in themeWrites /\ "light" \in themeWrites

\* C4: root carries exactly one theme class; only "light" or "dark" is ever
\* written to 'theme'; after a processed click the stored value names the class.
C4_ThemeInvariant ==
    /\ Cardinality(rootClasses \cap ThemeClasses) = 1
    /\ themeWrites \subseteq {"light", "dark"}
    /\ themeWrites # {} => themeStore = ThemeNameOf(rootClasses)

C4_Witness ==
    /\ themeWrites = {"light", "dark"} /\ viewTransitions # <<>>
    /\ rootClasses = {"dark-theme"} /\ pageLoads > 0

-----------------------------------------------------------------------------
(* Properties of the scroll spy *)

\* the probe line of the scroll spy lies on the midpoint of section k
ProbeAtMidpoint(k) == ScrollPos(scrollY, innerHeight) = Midpoint(sections[k])

\* C8 as stated: after the update with the scroll position at a section's
\* midpoint exactly one link is active, and it points at that section.
C8_OneActiveLink ==
    spied =>
        \A k \in 1..Len(sections) :
            ProbeAtMidpoint(k) =>
                \E l \in 1..Len(links) :
                    /\ activeLinks = {l} /\ ariaCurrent = {l}
                    /\ links[l] = "#" \o sections[k].id

\* C8 amended: with scrollY >= 100 and the probe line on the midpoint of the
\* first section that holds it, the active links are exactly the links that
\* point at that section, however many there are.
C8_ActiveLinksAreSectionLinks ==
    spied =>
        \A k \in 1..Len(sections) :
            (/\ ProbeAtMidpoint(k)
             /\ scrollY >= NearTop
             /\ \A j \in 1..(k - 1) :
                    ~(/\ Midpoint(sections[k]) >= sections[j].top
                      /\ Midpoint(sections[k]) < Bottom(sections[j]))) =>
                /\ activeLinks = {l \in 1..Len(links) : links[l] = "#" \o sections[k].id}
                /\ ariaCurrent = activeLinks

C8_Witness ==
    /\ spied /\ scrollY >= NearTop
    /\ ProbeAtMidpoint(3) /\ ~ProbeAtMidpoint(1) /\ ~ProbeAtMidpoint(2)
    /\ sections[2].top < Bottom(sections[1])
    /\ Cardinality(activeLinks) = 2 /\ Len(links) = 3
    /\ \A l \in activeLinks : links[l] = "#contact"

-----------------------------------------------------------------------------
(* Custom cursor properties *)

\* Math.atan2 returned 0, or rotation was left at 0
RotationIsZero(rot) == rot.dy = 0 /\ rot.dx > 0

\* The 200 ms that follow the last mouseleave that cleared the lock are running.
InUnlockWindow == lastLeave >= 0 /\ now < lastLeave + UnlockDelay

\* C9: after a mouseleave that clears the lock, in any sequence of enters and
\* leaves, isUnlocking stays true for the whole 200 ms that follow that leave,
\* and a frame drawn inside that window while no element is locked has scale
\* (1, 1) and rotation 0.
C9_UnlockWindowHolds ==
    /\ InUnlockWindow => isUnlocking
    /\ (lastFrame.drawn /\ lastFrame.inWindow /\ ~lastFrame.locked) =>
            /\ lastFrame.scaleX = 1000
            /\ lastFrame.scaleY = 1000
            /\ RotationIsZero(lastFrame.rotation)

\* The frame loop is running: a callback is pending that will draw and
\* reschedule itself.
LoopRunning == isCursorActive /\ pendingFrames > 0

-----------------------------------------------------------------------------
(* Cursor listener attachment properties *)

\* el matches the allow-list of the capability-aware module and is not ignored
Eligible(el) == MatchesSelectors(el) /\ ~ShouldIgnore(el)

\* C11: whatever the number and order of attachCursorListeners calls (initial
\* scan, rescans after insertions, restarts after stop/start), every element
\* has at most one mouseenter/mouseleave listener pair of the cursor code: one
\* exactly when it is marked __cursorAttached, none otherwise.
C11_AttachIdempotent ==
    \A el \in ElementIds :
        /\ listenerPairs[el] <= 1
        /\ listenerPairs[el] = 1 <=> attachedBy[el] # 0

\* An element inserted after load is bound once, after the cursor was stopped
\* and started again and every scheduled rescan has run.
C11_Witness ==
    /\ capChanges >= 2
    /\ isCursorActive
    /\ rescans = <<>>
    /\ \E el \in insertedEls : listenerPairs[el] = 1 /\ attachedBy[el] = 2

\* C12: while the cursor is active and no rescan is pending, every element of
\* the document that matches the allow-list and is not ignored has lock
\* listeners (elements present at start are bound at start, inserted ones by
\* the rescan); every scheduled rescan runs; and the pointer entering a bound
\* element while the cursor is active locks the ring onto it.
C12_EligibleGetBound ==
    /\ [](isCursorActive /\ rescans = <<>> =>
            \A el \in inDocument : Eligible(el) => attachedBy[el] # 0)
    /\ []<>(rescans = <<>>)
    /\ [][\A el \in ElementIds :
            (hovered # el /\ hovered' = el /\ isCursorActive /\ attachedBy[el] # 0) =>
                ringLocked' /\ (lockedItem' = el \/ firstLocked' = el)]_vars

\* An element inserted while the cursor was active was bound by the rescan (no
\* restart happened) and hovering it locked the ring.
C12_Witness ==
    /\ capChanges = 0
    /\ \E el \in insertedEls :
            attachedBy[el] = 2 /\ hovered = el /\ lockedItem = el /\ ringLocked

-----------------------------------------------------------------------------
(* Ring animation properties *)

\* This step is a run of the capability-aware loop() that draws: the cursor
\* is active and the pointer has moved.
FrameDraws == Frame /\ isCursorActive /\ hasMoved

\* the ring's remaining distance to target on axis k, as a fraction in
\* lowest terms
Remaining(r, k, target) == Frac(target[k] * r[3] - r[k], r[3])

Sign(x) == IF x > 0 THEN 1 ELSE IF x < 0 THEN -1 ELSE 0

C14_StretchCapped ==
    lastFrame.drawn =>
        /\ lastFrame.scaleX \in 1000..(1000 + StretchCap)
        /\ lastFrame.scaleY \in (1000 - StretchCap \div 2)..1000
        /\ lastFrame.scaleY = 1000 - (lastFrame.scaleX - 1000) \div 2
        /\ (lastFrame.locked \/ lastFrame.unlocking \/ lastFrame.inWindow) =>
                /\ lastFrame.scaleX = 1000
                /\ lastFrame.scaleY = 1000
                /\ RotationIsZero(lastFrame.rotation)

\* ---- the animation loops ----

\* The capability-aware loop has been started: startCursor has run
LoopStarted == isCursorActive \/ capChanges > 0

-----------------------------------------------------------------------------
(* Toast dismissal *)

\* C17: the removal routine of a toast is never run by the auto-dismiss timer
\* after the toast was dismissed by another route (its close button or the
\* handle returned by showToast).
C17_AutoDismissCleared ==
    \A i \in 1..Len(toasts) :
        \A k \in 2..Len(toasts[i].routes) : toasts[i].routes[k] # "auto"

-----------------------------------------------------------------------------
(* Missing elements *)

\* C18: whatever expected elements the document lacks, no module raises an
\* exception, neither while it initialises nor in a listener or timer it
\* registered.
C18_MissingElementsNoOp == raised = {}

-----------------------------------------------------------------------------
(* Scroll reveal properties *)

\* observer o has an entry queued that reports el intersecting
ReportsIntersecting(o, el) ==
    \E k \in 1..Len(entryQueue[o]) :
        entryQueue[o][k].target = el /\ entryQueue[o][k].isIntersecting

\* C19: an element has is-revealed exactly when a callback has reported it
\* intersecting; it gets the class in a callback that reports it intersecting
\* and that unobserves it in the same run; an observer that has reported it
\* no longer observes it; and the class is never removed, whatever scrolling
\* follows.
C19_RevealOnce ==
    /\ [](revealed = UNION {reportedBy[o] : o \in Observers})
    /\ [](\A o \in Observers : reportedBy[o] \cap observedBy[o] = {})
    /\ [][revealed \subseteq revealed']_vars
    /\ [][\A el \in revealed' \ revealed :
            \E o \in Observers :
                /\ ReportsIntersecting(o, el)
                /\ el \in observedBy[o] /\ el \notin observedBy'[o]
                /\ entryQueue'[o] = <<>>]_vars

\* An element was revealed by both observers and scrolled out of view and
\* back in afterwards; it still has the class and nobody observes it.
C19_Witness ==
    \E el \in RevealElements :
        /\ el \in revealed
        /\ \A o \in Observers : el \in reportedBy[o] /\ el \notin observedBy[o]
        /\ scrolls >= 2
        /\ nowIntersecting[el]
        /\ \A o \in Observers : entryQueue[o] = <<>>

-----------------------------------------------------------------------------
(* Palette properties *)

\* the custom properties of position k (from 1), as derived from colour hex
Derived(hex, k) ==
    LET hsl == HexToHSL(hex)
    IN  [h |-> hsl.h,
         s |-> IF k = 4 THEN Least(hsl.s, NeutralCap) ELSE hsl.s,
         l |-> IF k = 4 THEN NoValue ELSE hsl.l]

\* root.style has the properties of position k as derived from colors[k]
PositionFollows(colors, k) ==
    \A part \in {"h", "s", "l"} : rootStyle[<<Prefixes[k], part>>] = Derived(colors[k], k)[part]

\* C20 (as stated): after any sequence of card clicks localStorage
\* 'custom-palette' holds the JSON of the colours of the card clicked last and
\* the custom properties of the root are those derived from that palette.
C20_LastWriteWins ==
    lastClicked # <<>> =>
        /\ paletteStore = Stringify(lastClicked)
        /\ \A k \in 1..4 : k <= Len(lastClicked) /\ PositionFollows(lastClicked, k)

\* C20 (amended): once the view-transition callbacks of the clicks have run,
\* 'custom-palette' holds the JSON of the colours of the card clicked last and
\* the properties of each of the first four positions that palette has are
\* those derived from its colour there; a step that changes a property of the
\* root sets it from one of the first four colours of the palette it stores,
\* so a position the palette lacks keeps its value and a colour past the
\* fourth sets nothing.
C20_LastAppliedWins ==
    /\ [](lastClicked # <<>> /\ paletteVT = <<>> =>
            /\ paletteStore = Stringify(lastClicked)
            /\ \A k \in 1..Least(4, Len(lastClicked)) : PositionFollows(lastClicked, k))
    /\ [][\A name \in StyleNames :
            rootStyle'[name] # rootStyle[name] =>
                \E k \in 1..Least(4, Len(Parse(paletteStore'))) :
                    /\ name[1] = Prefixes[k]
                    /\ rootStyle'[name] = Derived(Parse(paletteStore')[k], k)[name[2]]]_vars

\* Two cards were clicked, the second one the card of a palette of five
\* colours, and the callbacks have run.
C20_Witness ==
    /\ paletteClicks = 2
    /\ Len(lastClicked) > 4
    /\ paletteVT = <<>>
    /\ paletteStore = Stringify(lastClicked)
    /\ metaColor = lastClicked[1]

-----------------------------------------------------------------------------
(* Theme initialisation properties *)

\* C21: whatever 'custom-palette' holds, the initialisation of the theme
\* modules raises no exception, and once a module is past its classList.add
\* statement or the script is over the root has a theme class.
C21_InitNeverThrows ==
    /\ bootRaised = {}
    /\ bootPc.at \in {"apply", "done", "ended"} =>
            bootClasses \cap {"dark-theme", "light-theme"} # {}

-----------------------------------------------------------------------------
(* Carousel properties *)

\* C16: after any sequence of next, previous and dot clicks and visibility
\* changes at most one autoplay interval is live, and two advances made by the
\* autoplay are at least one 3-second period apart.
C16_OneAutoplayInterval ==
    /\ Cardinality(liveIntervals) <= 1
    /\ lastGap = -1 \/ lastGap >= AutoplayPeriod

\* The interval has been re-armed, is live, and the autoplay has advanced the
\* slide twice, one period apart.
C16_Witness ==
    /\ handlesIssued >= 2
    /\ Cardinality(liveIntervals) = 1
    /\ lastGap = AutoplayPeriod

\* C22: once the observer has reported the carousel as not intersecting, no
\* autoplay tick advances the slide until it reports it intersecting again.
C22_AutoplayOnlyVisible ==
    [][(intersecting = "out" /\ IntervalFires) => currentSlide' = currentSlide]_vars

\* C23: next moves the current slide from index i to (i + 1) mod n and prev to
\* (i - 1) mod n (indices from 0; the model counts from 1), and next after prev
\* or prev after next shows the same slide again.
C23_InfiniteLoop ==
    [][/\ ShowPrevSlide(ShowNextSlide(marked)) = marked
       /\ ShowNextSlide(ShowPrevSlide(marked)) = marked
       /\ ClickNext => currentSlide' = (currentSlide % NumSlides) + 1
       /\ ClickPrev => currentSlide' = ((currentSlide + NumSlides - 2) % NumSlides) + 1]_vars

\* three clicks in a row have brought the carousel back to its first slide
C23_Witness ==
    currentSlide = 1 /\ carouselEvents = 3 /\ handlesIssued = 3 /\ carouselNow = 0

\* C24: the carousel starts with exactly one slide carrying current-slide and
\* the matching dot; after any next, prev and dot clicks and autoplay ticks
\* exactly one slide carries current-slide, and the dot that carries it has the
\* index of that slide.
C24_OneCurrentSlide ==
    /\ Cardinality(marked.slides) = 1
    /\ marked.dots = marked.slides

\* a click restarted the autoplay, whose first tick has moved to the last slide
C24_Witness ==
    /\ currentSlide = NumSlides /\ marked.dots = {NumSlides}
    /\ carouselEvents = 1 /\ handlesIssued = 1 /\ lastAutoAdvance = AutoplayPeriod

\* C25: while the pointer is over the carousel no autoplay tick changes the
\* current slide, and a click on next, prev or a dot still moves to its slide.
C25_PauseOnHover ==
    [][isHovered =>
        /\ IntervalFires => marked' = marked
        /\ ClickNext => currentSlide' = (currentSlide % NumSlides) + 1
        /\ ClickPrev => currentSlide' = ((currentSlide + NumSlides - 2) % NumSlides) + 1
        /\ \A t \in 1..NumDots : ClickDot(t) => currentSlide' = t]_vars

\* the pointer is over the carousel and the interval, which advanced the slide
\* before, has fired since without advancing it
C25_Witness ==
    /\ isHovered /\ handlesIssued = 1 /\ lastAutoAdvance # -1
    /\ \E i \in liveIntervals : i.due >= lastAutoAdvance + 2 * AutoplayPeriod

\* C26: whatever the order of capability change events and animation frames,
\* at most one callback of the capability-aware cursor loop is pending.
C26_OneFrameChain == pendingFrames <= 1

\* C27: after any mouseenter, mouseleave and capability change events the ring
\* carries is-locked exactly when lockedItem is not null.
C27_LockedIffItem == ringLocked <=> (lockedItem # NoElement)

\* C28: whenever a request of a submit listener has not settled yet, the submit
\* button is disabled.
C28_DisabledWhileInFlight ==
    (\E r \in 1..Len(runs) : runs[r].pc = "fetch") => btnDisabled
=============================================================================
